---- MODULE Spec2Model ----
(***************************************************************************)
(* A model of the concurrent scanning engine of gitguardian                *)
(* (internal/scanner/scanner.go, internal/scanner/dependencies.go,         *)
(* internal/config/config.go).                                             *)
(*                                                                         *)
(* Strings are sequences of one-character strings, so that masking,        *)
(* lower-casing, substring search and pattern matching are computed on     *)
(* characters as the Go code computes them on bytes.                       *)
(***************************************************************************)
EXTENDS Integers, Sequences, FiniteSets, TLC

VARIABLES
    call,       \* the function under test and its arguments (unit specifications)
    ret,        \* <<>> until the call returns, <<value>> after
    cfg,        \* *config.Config held by the Scanner
    scanType,   \* the ScanType argument of ScanPath
    fs,         \* the file tree under the scan root
    osv,        \* the advisory service: its answer per ecosystem batch
    pc,         \* where the goroutine running ScanPath stands
    files,      \* files collected by collectFiles
    wpc,        \* wpc[i]: where the worker goroutine of files[i] stands
    pending,    \* pending[i]: fileIssues of worker i not yet sent
    semaphore,  \* number of tokens held in the semaphore channel
    wg,         \* the sync.WaitGroup counter
    issues,     \* the buffered channel of Issue values
    closed,     \* whether the issues channel has been closed
    results,    \* the Results value ScanPath is building
    run,        \* 1 for the first ScanPath call on the tree, 2 for the second
    prev        \* Findings of the first call, as a multiset

vars == <<call, ret, cfg, scanType, fs, osv, pc, files, wpc, pending,
          semaphore, wg, issues, closed, results, run, prev>>

(***************************************************************************)
(* Bounds of the model.                                                    *)
(***************************************************************************)
MaxSecretLen == 10      \* longest secret handed to maskSecret
MaxLineLen == 5         \* longest line handed to scanSecrets
MaxEntries == 5         \* most entries of a file tree handed to collectFiles
MaxFiles == 3           \* most entries of the root directory handed to ScanPath
MaxVersionLen == 4      \* most pieces of a version declared in a JSON manifest
MaxManifestLines == 3   \* most lines of a line-based manifest
MaxDeps == 2            \* most packages of a manifest handed to scanDependencies
MaxOrderLines == 2      \* most lines of the file whose Findings are ordered
MaxOverflow == 1        \* most Findings of a scan beyond the capacity of the channel

(***************************************************************************)
(* strings                                                                 *)
(***************************************************************************)
Star == "*"

\* All strings over alphabet of length at most n.
Strings(alphabet, n) == UNION {[1..k -> alphabet] : k \in 0..n}

\* strings.Repeat(c, n) for a one-character c
Repeat(c, n) == [i \in 1..n |-> c]

\* unicode lower-casing of one character
ToLowerChar(c) ==
    CASE c = "A" -> "a"
      [] c = "B" -> "b"
      [] c = "K" -> "k"
      [] c = "T" -> "t"
      [] OTHER -> c

\* strings.ToLower
ToLower(s) == [i \in 1..Len(s) |-> ToLowerChar(s[i])]

\* whether sub occurs in s at (1-based) position i
OccursAt(s, sub, i) ==
    /\ i >= 1
    /\ i + Len(sub) - 1 <= Len(s)
    /\ \A j \in 1..Len(sub) : s[i + j - 1] = sub[j]

\* strings.Contains
Contains(s, sub) == \E i \in 1..(Len(s) + 1) : OccursAt(s, sub, i)

\* strings.Index, 0-based, -1 when sub does not occur
Index(s, sub) ==
    IF Contains(s, sub)
    THEN (CHOOSE i \in 1..(Len(s) + 1) :
            /\ OccursAt(s, sub, i)
            /\ \A j \in 1..(i - 1) : ~OccursAt(s, sub, j)) - 1
    ELSE -1

\* the slice s[lo:hi] of Go (0-based, hi exclusive)
Slice(s, lo, hi) == SubSeq(s, lo + 1, hi)

(***************************************************************************)
(* maskSecret                                                              *)
(***************************************************************************)
\* a maskSecret whose short-secret test is len(secret) < 8
maskSecretStrictlyShorter(secret) ==
    IF Len(secret) < 8
    THEN Repeat(Star, Len(secret))
    ELSE Slice(secret, 0, 4) \o Repeat(Star, Len(secret) - 8)
           \o Slice(secret, Len(secret) - 4, Len(secret))

\* a maskSecret that keeps five leading characters
maskSecretKeepFive(secret) ==
    IF Len(secret) <= 8
    THEN Repeat(Star, Len(secret))
    ELSE Slice(secret, 0, 5) \o Repeat(Star, Len(secret) - 9)
           \o Slice(secret, Len(secret) - 4, Len(secret))

maskSecret(secret) ==
    IF Len(secret) <= 8
    THEN Repeat(Star, Len(secret))
    ELSE Slice(secret, 0, 4) \o Repeat(Star, Len(secret) - 8)
           \o Slice(secret, Len(secret) - 4, Len(secret))

(***************************************************************************)
(* regular expressions                                                     *)
(*                                                                         *)
(* A compiled pattern is modelled by the regular expressions of the form   *)
(*     Prefix Class{Count}     or     Prefix (Class{Count})                *)
(* (a literal followed by Count characters of a class, captured or not),   *)
(* the form of AKIA[0-9A-Z]{16} and ([A-Za-z0-9]{32}) in DefaultConfig.    *)
(***************************************************************************)
PatternLen(re) == Len(re.Prefix) + re.Count

\* whether re matches line at (1-based) position i
MatchAt(re, line, i) ==
    /\ OccursAt(line, re.Prefix, i)
    /\ i + PatternLen(re) - 1 <= Len(line)
    /\ \A j \in 1..re.Count : line[i + Len(re.Prefix) + j - 1] \in re.Class

\* the []string of one match: match[0], and match[1] when there is a group
Submatch(re, line, i) ==
    LET whole == SubSeq(line, i, i + PatternLen(re) - 1)
        group == SubSeq(line, i + Len(re.Prefix), i + PatternLen(re) - 1)
    IN  IF re.Group THEN <<whole, group>> ELSE <<whole>>

\* the matches of re in line that start at position i or later, leftmost first
RECURSIVE FindAllFrom(_, _, _)
FindAllFrom(re, line, i) ==
    LET starts == {j \in i..Len(line) : MatchAt(re, line, j)}
    IN  IF starts = {} THEN <<>>
        ELSE LET first == CHOOSE j \in starts : \A k \in starts : j <= k
             IN  <<Submatch(re, line, first)>>
                 \o FindAllFrom(re, line, first + PatternLen(re))

\* regexp.FindAllStringSubmatch(line, -1): leftmost, non-overlapping matches
FindAllStringSubmatch(re, line) == FindAllFrom(re, line, 1)

RECURSIVE ConcatAll(_)
ConcatAll(ss) == IF ss = <<>> THEN <<>> ELSE Head(ss) \o ConcatAll(Tail(ss))

(***************************************************************************)
(* isWhitelisted, scanSecrets, scanSocialEngineering                       *)
(***************************************************************************)
\* an isWhitelisted that compares case-sensitively
isWhitelistedCaseSensitive(value) ==
    \E i \in 1..Len(cfg.Whitelist) : Contains(value, cfg.Whitelist[i])

isWhitelisted(value) ==
    \E i \in 1..Len(cfg.Whitelist) :
        Contains(ToLower(value), ToLower(cfg.Whitelist[i]))

\* the Issue scanSecrets builds for one match that is not whitelisted
SecretIssue(filePath, lineNum, line, pattern, match) ==
    LET secret == IF Len(match) > 1 THEN match[2] ELSE match[1]
    IN  [Type        |-> "secret",
         Severity    |-> pattern.Severity,
         File        |-> filePath,
         Line        |-> lineNum + 1,
         Column      |-> Index(line, match[1]) + 1,
         Description |-> <<pattern.Description>>,
         Content     |-> maskSecret(secret),
         Rule        |-> pattern.Name]

\* the inner loops of scanSecrets: one pattern on one line
PatternIssues(filePath, lineNum, line, pattern) ==
    LET matches == FindAllStringSubmatch(pattern.compiled, line)
        kept    == SelectSeq(matches, LAMBDA m : ~isWhitelisted(m[1]))
    IN  [k \in 1..Len(kept) |-> SecretIssue(filePath, lineNum, line, pattern, kept[k])]

\* content is the result of strings.Split(content, "\n"): the lines
scanSecrets(filePath, content) ==
    ConcatAll([ln \in 1..Len(content) |->
        ConcatAll([p \in 1..Len(cfg.SecretPatterns) |->
            PatternIssues(filePath, ln - 1, content[ln], cfg.SecretPatterns[p])])])

SocialIssue(filePath, lineNum, line, keyword) ==
    [Type        |-> "social",
     Severity    |-> "medium",
     File        |-> filePath,
     Line        |-> lineNum + 1,
     Column      |-> Index(ToLower(line), ToLower(keyword)) + 1,
     Description |-> <<"Suspicious keyword detected: ">> \o keyword,
     Content     |-> line,
     Rule        |-> "Social Engineering Detection"]

scanSocialEngineering(filePath, content) ==
    LET kws == cfg.SocialEngineering.SuspiciousKeywords
    IN  ConcatAll([ln \in 1..Len(content) |->
            LET hits == SelectSeq(kws, LAMBDA kw :
                            Contains(ToLower(content[ln]), ToLower(kw)))
            IN  [k \in 1..Len(hits) |->
                    SocialIssue(filePath, ln - 1, content[ln], hits[k])]])

(***************************************************************************)
(* configurations                                                          *)
(***************************************************************************)
\* regexp.Compile of the two pattern sources used by the model
KeyRegexp   == [Prefix |-> <<"k">>, Class |-> {"a", "t", "T"}, Count |-> 1, Group |-> TRUE]
TokenRegexp == [Prefix |-> <<"k", "a">>, Class |-> {"t", "T"}, Count |-> 1, Group |-> FALSE]

\* a config.SecretPattern after CompilePatterns
SecretPattern(name, severity, re) ==
    [Name |-> name, Description |-> name, Severity |-> severity, compiled |-> re]

KeyPattern(severity)   == SecretPattern("Generic API Key", severity, KeyRegexp)
TokenPattern(severity) == SecretPattern("Access Token", severity, TokenRegexp)

\* a *config.Config
Config(verbose, patterns, whitelist, maxFileSize, osvEnabled, social, keywords, conc) ==
    [Verbose           |-> verbose,
     SecretPatterns    |-> patterns,
     Whitelist         |-> whitelist,
     MaxFileSize       |-> maxFileSize,
     DependencyAPIs    |-> [OSVEnabled |-> osvEnabled],
     SocialEngineering |-> [Enabled |-> social, SuspiciousKeywords |-> keywords],
     MaxConcurrency    |-> conc]

\* the state of a Scanner on which ScanPath has not been called
NoResults == [FilesScanned |-> 0, Issues |-> <<>>,
              Summary |-> [Critical |-> 0, High |-> 0, Medium |-> 0, Low |-> 0, Total |-> 0]]

NoScan ==
    /\ pc = "idle"
    /\ files = <<>>
    /\ wpc = <<>>
    /\ pending = <<>>
    /\ semaphore = 0
    /\ wg = 0
    /\ issues = <<>>
    /\ closed = FALSE
    /\ results = NoResults
    /\ run = 1
    /\ prev = <<>>

scanVars == <<pc, files, wpc, pending, semaphore, wg, issues, closed,
              results, run, prev>>

(***************************************************************************)
(* MaskSpec: maskSecret applied to every secret of at most MaxSecretLen    *)
(* characters.                                                             *)
(***************************************************************************)
MaskAlphabet == {"a", "b", Star}

UnitConfig(patterns, whitelist) ==
    Config(FALSE, patterns, whitelist, 64, FALSE, FALSE, <<>>, 1)

MaskInit ==
    /\ call \in {[fn |-> "maskSecret", secret |-> s] :
                    s \in Strings(MaskAlphabet, MaxSecretLen)}
    /\ ret = <<>>
    /\ cfg = UnitConfig(<<>>, <<>>)
    /\ scanType = "all"
    /\ fs = <<>>
    /\ osv = <<>>
    /\ NoScan

CallMaskSecret ==
    /\ call.fn = "maskSecret"
    /\ ret = <<>>
    /\ ret' = <<maskSecret(call.secret)>>
    /\ UNCHANGED <<call, cfg, scanType, fs, osv, scanVars>>

MaskNext == CallMaskSecret

MaskSpec == MaskInit /\ [][MaskNext]_vars

LineAlphabet == {"k", "a", "t", "T"}

Contents ==
    {<<l>> : l \in Strings(LineAlphabet, MaxLineLen)}
        \cup {<<l1, l2>> : l1, l2 \in Strings(LineAlphabet, MaxLineLen - 3)}

PatternLists ==
    {<<KeyPattern("high")>>, <<TokenPattern("critical")>>,
     <<KeyPattern("high"), TokenPattern("critical")>>}

Whitelists ==
    {<<>>, <<<<"t">>>>, <<<<"A">>>>, <<<<"k", "t">>, <<"T">>>>}

SecretsInit ==
    /\ call \in {[fn |-> "scanSecrets", filePath |-> <<"f">>, content |-> c] :
                    c \in Contents}
    /\ ret = <<>>
    /\ cfg \in {UnitConfig(ps, wl) : ps \in PatternLists, wl \in Whitelists}
    /\ scanType = "all"
    /\ fs = <<>>
    /\ osv = <<>>
    /\ NoScan

CallScanSecrets ==
    /\ call.fn = "scanSecrets"
    /\ ret = <<>>
    /\ ret' = <<scanSecrets(call.filePath, call.content)>>
    /\ UNCHANGED <<call, cfg, scanType, fs, osv, scanVars>>

SecretsNext == CallScanSecrets

SecretsSpec == SecretsInit /\ [][SecretsNext]_vars

\* the matched value of a match: the first capture group if the pattern
\* has one, else the whole match
MatchedValue(m) == IF Len(m) > 1 THEN m[2] ELSE m[1]

\* whether v and w are equal up to the case of their letters
EqualFold(v, w) ==
    /\ Len(v) = Len(w)
    /\ \A i \in 1..Len(v) : ToLowerChar(v[i]) = ToLowerChar(w[i])

\* whether a value case-insensitively contains a whitelist entry
ValueHasWhitelistEntry(v) ==
    \E w \in {cfg.Whitelist[i] : i \in 1..Len(cfg.Whitelist)} :
        \E i \in 1..(Len(v) + 1) :
            /\ i + Len(w) - 1 <= Len(v)
            /\ EqualFold(SubSeq(v, i, i + Len(w) - 1), w)

\* the matches of pattern p on line ln of the scanned content
MatchesOf(ln, p) ==
    FindAllStringSubmatch(cfg.SecretPatterns[p].compiled, call.content[ln])

\* the secret Findings returned for line ln and pattern p
FindingsOf(ln, p) ==
    {k \in 1..Len(ret[1]) :
        /\ ret[1][k].Type = "secret"
        /\ ret[1][k].Line = ln
        /\ ret[1][k].Rule = cfg.SecretPatterns[p].Name}

\* C9: a match whose matched value case-insensitively contains a whitelist
\* entry gets no secret Finding: on every line and for every pattern, there
\* are at most as many secret Findings as matches whose value contains no
\* whitelist entry.
C9_WhitelistedValueSuppressed ==
    (call.fn = "scanSecrets" /\ ret # <<>>)
        => \A ln \in 1..Len(call.content) : \A p \in 1..Len(cfg.SecretPatterns) :
               Cardinality(FindingsOf(ln, p))
                   <= Cardinality({j \in 1..Len(MatchesOf(ln, p)) :
                          ~ValueHasWhitelistEntry(MatchedValue(MatchesOf(ln, p)[j]))})

\* scanSecrets has returned for a line with two matches of a capturing
\* pattern: one whose captured value contains a whitelist entry in another
\* case, suppressed, and one that is reported.
C9_Witness ==
    /\ call.fn = "scanSecrets"
    /\ ret # <<>>
    /\ \E ln \in 1..Len(call.content) : \E p \in 1..Len(cfg.SecretPatterns) :
          /\ Len(MatchesOf(ln, p)) = 2
          /\ Cardinality(FindingsOf(ln, p)) = 1
          /\ \E j \in 1..2 :
                LET m == MatchesOf(ln, p)[j]
                IN  /\ Len(m) > 1
                    /\ ValueHasWhitelistEntry(m[2])
                    /\ \A i \in 1..Len(cfg.Whitelist) : ~Contains(m[2], cfg.Whitelist[i])

(***************************************************************************)
(* the file tree                                                           *)
(*                                                                         *)
(* A path is the sequence of its elements, the scan root first; fs maps    *)
(* every existing path to its entry.  An entry records what os.Lstat,      *)
(* the directory read, os.Stat and ioutil.ReadFile answer for it.          *)
(***************************************************************************)
\* the entry names of the model, in the order of sort.Strings
Names ==
    <<"Cargo.toml", "Gemfile", "Package.json", "a.go", "b.md", "c.env",
      "composer.json", "go.mod",
      "lib.so", "notes.txt", "package-lock.json", "package.json",
      "requirements.txt", "src", "vendor">>

\* the names given to the entries of the trees handed to collectFiles alone
WalkNames == <<"a.go", "lib.so", "src", "vendor">>

\* filepath.Base
Base(path) == path[Len(path)]

\* filepath.Ext of a name of the model
Ext(name) ==
    CASE name = "a.go"   -> ".go"
      [] name = "b.md"   -> ".md"
      [] name = "c.env"  -> ".env"
      [] name = "go.mod" -> ".mod"
      [] name = "lib.so" -> ".so"
      [] name \in {"notes.txt", "requirements.txt"} -> ".txt"
      [] name \in {"package.json", "Package.json", "package-lock.json",
                   "composer.json"} -> ".json"
      [] name = "Cargo.toml" -> ".toml"
      [] OTHER           -> ""

Entry(kind, lstatErr, readErr, size, content, manifest) ==
    [kind |-> kind, lstatErr |-> lstatErr, readErr |-> readErr, size |-> size,
     content |-> content, manifest |-> manifest]

\* what the manifest parsers find in a file that declares nothing
NoManifest == [err |-> FALSE, deps |-> <<>>, devDeps |-> <<>>]

EmptyDir  == Entry("dir", FALSE, FALSE, 0, <<>>, NoManifest)
EmptyFile == Entry("file", FALSE, FALSE, 0, <<<<>>>>, NoManifest)

\* the entries of the model that can bear a name: a name with an extension
\* is a file, "src" is a directory and "vendor" is either
EntriesNamed(name) ==
    IF Ext(name) # "" THEN {EmptyFile}
    ELSE IF name = "src" THEN {EmptyDir}
    ELSE {EmptyDir, EmptyFile}

\* a shouldSkipDir that skips nothing
shouldSkipDirNever(dirname) == FALSE

shouldSkipDir(dirname) ==
    dirname \in {".git", ".svn", ".hg", "node_modules", "vendor", ".venv", "venv",
                 "target", "build", "dist", "out", ".idea", ".vscode"}

\* strings.ToLower of an extension of the model
LowerExt(ext) == ext

shouldScanFile(filePath) ==
    \/ LowerExt(Ext(Base(filePath))) \in
          {".go", ".py", ".js", ".ts", ".java", ".cpp", ".c", ".cs", ".php",
           ".rb", ".sh", ".bash", ".zsh", ".fish",
           ".yaml", ".yml", ".json", ".xml", ".toml", ".ini", ".cfg", ".conf",
           ".txt", ".md", ".rst", ".html", ".css", ".scss", ".sass",
           ".sql", ".env", ".envrc", ".dockerignore", ".gitignore",
           ".Dockerfile", ""}
    \/ Base(filePath) \in {"Dockerfile", "Makefile", "Jenkinsfile", "Vagrantfile",
                           "docker-compose.yml", "docker-compose.yaml"}

\* the names of the directory at path, sorted (readDirNames of filepath.Walk)
ReadDirNames(path) ==
    SelectSeq(Names, LAMBDA n : Append(path, n) \in DOMAIN fs)

\* a callback that omits an entry it is handed with an error, and goes on
WalkFnSwallow(filePath, isDir, walkErr, acc) ==
    IF walkErr # "nil" THEN [files |-> acc, err |-> "nil"]
    ELSE IF isDir
         THEN [files |-> acc,
               err |-> IF shouldSkipDir(Base(filePath)) THEN "SkipDir" ELSE "nil"]
         ELSE [files |-> IF shouldScanFile(filePath) THEN Append(acc, filePath) ELSE acc,
               err |-> "nil"]

\* the callback collectFiles hands to filepath.Walk; acc is the files slice
WalkFn(filePath, isDir, walkErr, acc) ==
    IF walkErr # "nil" THEN [files |-> acc, err |-> walkErr]
    ELSE IF isDir
         THEN [files |-> acc,
               err |-> IF shouldSkipDir(Base(filePath)) THEN "SkipDir" ELSE "nil"]
         ELSE [files |-> IF shouldScanFile(filePath) THEN Append(acc, filePath) ELSE acc,
               err |-> "nil"]

RECURSIVE walk(_, _)
RECURSIVE walkNames(_, _, _)

\* filepath.walk
walk(path, acc) ==
    IF fs[path].kind # "dir" THEN WalkFn(path, FALSE, "nil", acc)
    ELSE LET readErr == IF fs[path].readErr THEN "read error" ELSE "nil"
             r1 == WalkFn(path, TRUE, readErr, acc)
         IN  IF readErr # "nil" \/ r1.err # "nil" THEN r1
             ELSE walkNames(path, ReadDirNames(path), acc)

\* the loop of filepath.walk over the names of a directory
walkNames(path, names, acc) ==
    IF names = <<>> THEN [files |-> acc, err |-> "nil"]
    ELSE LET filename == Append(path, Head(names))
         IN  IF fs[filename].lstatErr
             THEN LET r == WalkFn(filename, FALSE, "lstat error", acc)
                  IN  IF r.err \notin {"nil", "SkipDir"} THEN r
                      ELSE walkNames(path, Tail(names), r.files)
             ELSE LET r == walk(filename, acc)
                  IN  IF r.err # "nil" /\ (fs[filename].kind # "dir" \/ r.err # "SkipDir")
                      THEN r
                      ELSE walkNames(path, Tail(names), r.files)

\* a traversal that hands the callback only the entries below a root
\* directory, never the root directory itself
WalkBelowRoot(root) ==
    LET r == IF fs[root].lstatErr
             THEN WalkFn(root, FALSE, "lstat error", <<>>)
             ELSE IF fs[root].kind = "dir" /\ ~fs[root].readErr
                  THEN walkNames(root, ReadDirNames(root), <<>>)
                  ELSE walk(root, <<>>)
    IN  IF r.err = "SkipDir" THEN [files |-> r.files, err |-> "nil"] ELSE r

\* filepath.Walk
Walk(root) ==
    LET r == IF fs[root].lstatErr
             THEN WalkFn(root, FALSE, "lstat error", <<>>)
             ELSE walk(root, <<>>)
    IN  IF r.err = "SkipDir" THEN [files |-> r.files, err |-> "nil"] ELSE r

collectFiles(path) == Walk(path)

(***************************************************************************)
(* WalkSpec: collectFiles applied to every file tree of at most MaxEntries *)
(* entries, with at most one entry on which a system call fails.  The tree *)
(* is built entry by entry before the call.                                *)
(***************************************************************************)
Root == CHOOSE p \in DOMAIN fs : Len(p) = 1

NoFault == \A p \in DOMAIN fs : ~fs[p].lstatErr /\ ~fs[p].readErr

WalkInit ==
    /\ call = [fn |-> "collectFiles"]
    /\ ret = <<>>
    /\ cfg = UnitConfig(<<>>, <<>>)
    /\ scanType = "all"
    /\ \E i \in 1..Len(WalkNames) : \E e \in EntriesNamed(WalkNames[i]) :
          fs = [p \in {<<WalkNames[i]>>} |-> e]
    /\ osv = <<>>
    /\ NoScan

\* os.Mkdir or os.WriteFile of a new entry below an existing directory
CreateEntry ==
    /\ call.fn = "collectFiles"
    /\ ret = <<>>
    /\ NoFault
    /\ Cardinality(DOMAIN fs) < MaxEntries
    /\ \E parent \in DOMAIN fs, i \in 1..Len(WalkNames) : \E e \in EntriesNamed(WalkNames[i]) :
          LET path == Append(parent, WalkNames[i])
          IN  /\ fs[parent].kind = "dir"
              /\ path \notin DOMAIN fs
              /\ fs' = [p \in DOMAIN fs \cup {path} |-> IF p = path THEN e ELSE fs[p]]
    /\ UNCHANGED <<call, ret, cfg, scanType, osv, scanVars>>

\* an entry becomes one that cannot be stat'ed, or a directory that cannot be read
BreakEntry ==
    /\ call.fn = "collectFiles"
    /\ ret = <<>>
    /\ NoFault
    /\ \E p \in DOMAIN fs :
          \/ fs' = [fs EXCEPT ![p].lstatErr = TRUE]
          \/ fs[p].kind = "dir" /\ fs' = [fs EXCEPT ![p].readErr = TRUE]
    /\ UNCHANGED <<call, ret, cfg, scanType, osv, scanVars>>

CallCollectFiles ==
    /\ call.fn = "collectFiles"
    /\ ret = <<>>
    /\ ret' = <<collectFiles(Root)>>
    /\ UNCHANGED <<call, cfg, scanType, fs, osv, scanVars>>

WalkNext == CreateEntry \/ BreakEntry \/ CallCollectFiles

WalkSpec == WalkInit /\ [][WalkNext]_vars

\* the directory names the traversal is not to descend into
SkipList == {".git", ".svn", ".hg", "node_modules", "vendor", ".venv", "venv",
             "target", "build", "dist", "out", ".idea", ".vscode"}

\* whether path lies below a directory whose basename is in the skip list
BelowSkippedDir(path) ==
    \E k \in 1..(Len(path) - 1) :
        /\ fs[SubSeq(path, 1, k)].kind = "dir"
        /\ path[k] \in SkipList

\* C10: no path below a directory whose basename is in the skip list, at
\* any depth, is among the files collected for scanning.
C10_SkippedDirsNotCollected ==
    (call.fn = "collectFiles" /\ ret # <<>>)
        => \A i \in 1..Len(ret[1].files) : ~BelowSkippedDir(ret[1].files[i])

\* collectFiles has returned files for a tree that holds a scannable file
\* two levels below a skip-listed directory
C10_Witness ==
    /\ call.fn = "collectFiles"
    /\ ret # <<>>
    /\ Len(ret[1].files) > 0
    /\ \E p \in DOMAIN fs :
          /\ fs[p].kind = "file"
          /\ shouldScanFile(p)
          /\ \E k \in 1..(Len(p) - 2) :
                fs[SubSeq(p, 1, k)].kind = "dir" /\ p[k] \in SkipList

(***************************************************************************)
(* scanFile and the dependency scan                                        *)
(***************************************************************************)
BinaryProbe == 512      \* bytes isBinary inspects

\* the bytes of a file: its lines joined by "\n"
RECURSIVE JoinLines(_)
JoinLines(lines) ==
    IF Len(lines) = 0 THEN <<>>
    ELSE IF Len(lines) = 1 THEN lines[1]
    ELSE lines[1] \o <<"\n">> \o JoinLines(Tail(lines))

\* an isBinary that inspects the whole content
isBinaryWholeFile(data) == \E i \in 1..Len(data) : data[i] = "NUL"

\* an isBinary that finds no file binary
isBinaryNever(data) == FALSE

isBinary(data) ==
    LET limit == IF Len(data) > BinaryProbe THEN BinaryProbe ELSE Len(data)
    IN  \E i \in 1..limit : data[i] = "NUL"

\* A manifest text is the sequence of its lines and a line the sequence of
\* its pieces: a word of the format ("require", "gem", a package name, a
\* version number) is one piece, every other character is a piece of its own.
Spaces == {" ", "\t"}

RECURSIVE TrimLeft(_)
TrimLeft(s) == IF s # <<>> /\ Head(s) \in Spaces THEN TrimLeft(Tail(s)) ELSE s

RECURSIVE TrimRight(_)
TrimRight(s) ==
    IF s # <<>> /\ s[Len(s)] \in Spaces THEN TrimRight(SubSeq(s, 1, Len(s) - 1)) ELSE s

\* strings.TrimSpace
TrimSpace(s) == TrimRight(TrimLeft(s))

\* strings.HasPrefix
HasPrefix(s, prefix) == Len(prefix) <= Len(s) /\ SubSeq(s, 1, Len(prefix)) = prefix

\* strings.TrimPrefix
TrimPrefix(s, prefix) ==
    IF HasPrefix(s, prefix) THEN SubSeq(s, Len(prefix) + 1, Len(s)) ELSE s

\* the prefixes of cleanVersion, in the order of its loop
VersionPrefixes ==
    << <<"^">>, <<"~">>, <<">", "=">>, <<"<", "=">>, <<">">>, <<"<">>, <<"=">> >>

\* the loop of cleanVersion from prefix k on
RECURSIVE StripFrom(_, _)
StripFrom(version, k) ==
    IF k > Len(VersionPrefixes) THEN version
    ELSE StripFrom(TrimPrefix(version, VersionPrefixes[k]), k + 1)

cleanVersion(version) == TrimSpace(StripFrom(version, 1))

Dependency(name, version, ecosystem, file) ==
    [Name |-> name, Version |-> version, Ecosystem |-> ecosystem, File |-> file]

\* json.Unmarshal of the content of the file at filePath: the entry holds
\* what the decoder finds (manifest.err when the text is not JSON, else the
\* name/version pairs of the two maps, in the order the range loops take)
Unmarshal(filePath) == fs[filePath].manifest

parsePackageJSON(content, filePath) ==
    LET pkg == Unmarshal(filePath)
        dep(d) == Dependency(d.Name, cleanVersion(d.Version), "npm", filePath)
    IN  IF pkg.err THEN [deps |-> <<>>, err |-> "json error"]
        ELSE [deps |-> [i \in 1..Len(pkg.deps) |-> dep(pkg.deps[i])]
                       \o [i \in 1..Len(pkg.devDeps) |-> dep(pkg.devDeps[i])],
              err |-> "nil"]

parseComposerJSON(content, filePath) ==
    LET composer == Unmarshal(filePath)
        dep(d) == Dependency(d.Name, cleanVersion(d.Version), "Packagist", filePath)
        require == SelectSeq(composer.deps, LAMBDA d : d.Name # "php")
    IN  IF composer.err THEN [deps |-> <<>>, err |-> "json error"]
        ELSE [deps |-> [i \in 1..Len(require) |-> dep(require[i])]
                       \o [i \in 1..Len(composer.devDeps) |-> dep(composer.devDeps[i])],
              err |-> "nil"]

\* parsePomXML: the entry holds the groupId/artifactId/version triples the
\* pattern finds in the raw text, the name already joined with a colon
parsePomXML(content, filePath) ==
    LET found == fs[filePath].manifest.deps
    IN  [deps |-> [i \in 1..Len(found) |->
                      Dependency(found[i].Name, found[i].Version, "Maven", filePath)],
         err |-> "nil"]

\* the number of pieces of s, from index i on, that are in class (neg =
\* FALSE) or are not in class (neg = TRUE): a greedy character class
RECURSIVE Span(_, _, _, _)
Span(s, i, class, neg) ==
    IF i <= Len(s) /\ ((s[i] \in class) # neg) THEN 1 + Span(s, i + 1, class, neg) ELSE 0

\* requirePattern of parseGoMod, ^\s*([^\s]+)\s+v?([^\s]+), on a line:
\* FindStringSubmatch, <<>> when there is no match
RequireMatch(line) ==
    LET a  == 1 + Span(line, 1, Spaces, FALSE)
        n1 == Span(line, a, Spaces, TRUE)
        b  == a + n1
        ns == Span(line, b, Spaces, FALSE)
        c  == b + ns
        n2 == Span(line, c, Spaces, TRUE)
    IN  IF n1 = 0 \/ ns = 0 \/ n2 = 0 THEN <<>>
        ELSE IF line[c] = "v" /\ n2 > 1
             THEN <<SubSeq(line, 1, c + n2 - 1), SubSeq(line, a, b - 1),
                    SubSeq(line, c + 1, c + n2 - 1)>>
             ELSE <<SubSeq(line, 1, c + n2 - 1), SubSeq(line, a, b - 1),
                    SubSeq(line, c, c + n2 - 1)>>

RequireOpen == <<"require", " ", "(">>
RequireWord == <<"require", " ">>

\* the loop of parseGoMod over the lines, from line k on
RECURSIVE GoModFrom(_, _, _, _)
GoModFrom(lines, k, inRequire, filePath) ==
    IF k > Len(lines) THEN <<>>
    ELSE LET line == TrimSpace(lines[k])
         IN  IF HasPrefix(line, RequireOpen) THEN GoModFrom(lines, k + 1, TRUE, filePath)
             ELSE IF inRequire /\ line = <<")">>
                  THEN GoModFrom(lines, k + 1, FALSE, filePath)
             ELSE IF HasPrefix(line, RequireWord) \/ inRequire
                  THEN LET matches == RequireMatch(TrimPrefix(line, RequireWord))
                       IN  (IF Len(matches) = 3
                            THEN <<Dependency(matches[2], matches[3], "Go", filePath)>>
                            ELSE <<>>)
                           \o GoModFrom(lines, k + 1, inRequire, filePath)
             ELSE GoModFrom(lines, k + 1, inRequire, filePath)

parseGoMod(content, filePath) ==
    [deps |-> GoModFrom(content, 1, FALSE, filePath), err |-> "nil"]

\* the pieces of the manifest texts of the model, by character class
WordPieces   ==
    {"dependencies", "flask", "gem", "go", "m", "module", "package", "rails", "require",
     "serde", "v"}
DigitPieces  == {"1", "2"}
DottedPieces == {"1.0"}

\* requirePattern of parseRequirementsTxt,
\* ^([a-zA-Z0-9_\-\.]+)([><=!]+)([0-9\.]+[a-zA-Z0-9\.\-]*), on a line
RequirementMatch(line) ==
    LET n1 == Span(line, 1, WordPieces \cup DigitPieces \cup DottedPieces \cup {"_", "-", "."},
                   FALSE)
        n2 == Span(line, 1 + n1, {">", "<", "=", "!"}, FALSE)
        c  == 1 + n1 + n2
        n3 == Span(line, c, DigitPieces \cup DottedPieces \cup {"."}, FALSE)
        n4 == Span(line, c + n3, WordPieces \cup DigitPieces \cup DottedPieces \cup {".", "-"},
                   FALSE)
    IN  IF n1 = 0 \/ n2 = 0 \/ n3 = 0 THEN <<>>
        ELSE <<SubSeq(line, 1, c + n3 + n4 - 1), SubSeq(line, 1, n1),
               SubSeq(line, 1 + n1, n1 + n2), SubSeq(line, c, c + n3 + n4 - 1)>>

parseRequirementsTxt(content, filePath) ==
    [deps |-> ConcatAll([k \in 1..Len(content) |->
                 LET line == TrimSpace(content[k])
                     matches == RequirementMatch(line)
                 IN  IF line = <<>> \/ HasPrefix(line, <<"#">>) THEN <<>>
                     ELSE IF Len(matches) = 4
                          THEN <<Dependency(matches[2], matches[4], "PyPI", filePath)>>
                          ELSE <<>>]),
     err |-> "nil"]

Quotes == {"'", "\""}

\* gemPattern of parseGemfile, gem\s+['"]([^'"]+)['"]\s*,\s*['"]([^'"]+)['"],
\* matched from piece i of a line
GemMatchAt(line, i) ==
    LET ns    == Span(line, i + 1, Spaces, FALSE)
        q1    == i + 1 + ns
        n1    == Span(line, q1 + 1, Quotes, TRUE)
        q2    == q1 + 1 + n1
        comma == q2 + 1 + Span(line, q2 + 1, Spaces, FALSE)
        q3    == comma + 1 + Span(line, comma + 1, Spaces, FALSE)
        n2    == Span(line, q3 + 1, Quotes, TRUE)
        q4    == q3 + 1 + n2
    IN  IF /\ line[i] = "gem"
           /\ ns > 0
           /\ q1 <= Len(line) /\ line[q1] \in Quotes
           /\ n1 > 0
           /\ q2 <= Len(line) /\ line[q2] \in Quotes
           /\ comma <= Len(line) /\ line[comma] = ","
           /\ q3 <= Len(line) /\ line[q3] \in Quotes
           /\ n2 > 0
           /\ q4 <= Len(line) /\ line[q4] \in Quotes
        THEN <<SubSeq(line, i, q4), SubSeq(line, q1 + 1, q2 - 1), SubSeq(line, q3 + 1, q4 - 1)>>
        ELSE <<>>

\* FindStringSubmatch of gemPattern: the leftmost match of the line
GemMatch(line) ==
    LET hits == {i \in 1..Len(line) : GemMatchAt(line, i) # <<>>}
    IN  IF hits = {} THEN <<>>
        ELSE GemMatchAt(line, CHOOSE i \in hits : \A j \in hits : i <= j)

parseGemfile(content, filePath) ==
    [deps |-> ConcatAll([k \in 1..Len(content) |->
                 LET line == TrimSpace(content[k])
                     matches == GemMatch(line)
                 IN  IF HasPrefix(line, <<"#">>) THEN <<>>
                     ELSE IF Len(matches) = 3
                          THEN <<Dependency(matches[2], matches[3], "RubyGems", filePath)>>
                          ELSE <<>>]),
     err |-> "nil"]

\* depPattern of parseCargoToml, ^([a-zA-Z0-9_\-]+)\s*=\s*"([^"]+)", on a line
CargoMatch(line) ==
    LET n1 == Span(line, 1, WordPieces \cup DigitPieces \cup {"_", "-"}, FALSE)
        eq == 1 + n1 + Span(line, 1 + n1, Spaces, FALSE)
        q1 == eq + 1 + Span(line, eq + 1, Spaces, FALSE)
        n2 == Span(line, q1 + 1, {"\""}, TRUE)
        q2 == q1 + 1 + n2
    IN  IF /\ n1 > 0
           /\ eq <= Len(line) /\ line[eq] = "="
           /\ q1 <= Len(line) /\ line[q1] = "\""
           /\ n2 > 0
           /\ q2 <= Len(line) /\ line[q2] = "\""
        THEN <<SubSeq(line, 1, q2), SubSeq(line, 1, n1), SubSeq(line, q1 + 1, q2 - 1)>>
        ELSE <<>>

DependenciesTable == <<"[", "dependencies", "]">>

\* the loop of parseCargoToml over the lines, from line k on
RECURSIVE CargoFrom(_, _, _, _)
CargoFrom(lines, k, inDependencies, filePath) ==
    IF k > Len(lines) THEN <<>>
    ELSE LET line == TrimSpace(lines[k])
         IN  IF line = DependenciesTable THEN CargoFrom(lines, k + 1, TRUE, filePath)
             ELSE IF HasPrefix(line, <<"[">>) /\ line # DependenciesTable
                  THEN CargoFrom(lines, k + 1, FALSE, filePath)
             ELSE IF inDependencies /\ line # <<>> /\ ~HasPrefix(line, <<"#">>)
                  THEN LET matches == CargoMatch(line)
                       IN  (IF Len(matches) = 3
                            THEN <<Dependency(matches[2], matches[3], "crates.io", filePath)>>
                            ELSE <<>>)
                           \o CargoFrom(lines, k + 1, inDependencies, filePath)
             ELSE CargoFrom(lines, k + 1, inDependencies, filePath)

parseCargoToml(content, filePath) ==
    [deps |-> CargoFrom(content, 1, FALSE, filePath), err |-> "nil"]

\* a ToLower that leaves upper-case letters as they are
LowerNameIdentity(name) == name

\* strings.ToLower of an entry name of the model
LowerName(name) ==
    CASE name = "Package.json" -> "package.json"
      [] name = "Cargo.toml"   -> "cargo.toml"
      [] name = "Gemfile"      -> "gemfile"
      [] OTHER                 -> name

parseDependencies(filePath, content) ==
    LET filename == LowerName(Base(filePath))
    IN  CASE filename = "package.json"     -> parsePackageJSON(content, filePath)
          [] filename = "go.mod"           -> parseGoMod(content, filePath)
          [] filename = "requirements.txt" -> parseRequirementsTxt(content, filePath)
          [] filename = "gemfile"          -> parseGemfile(content, filePath)
          [] filename = "composer.json"    -> parseComposerJSON(content, filePath)
          [] filename = "pom.xml"          -> parsePomXML(content, filePath)
          [] filename = "cargo.toml"       -> parseCargoToml(content, filePath)
          [] OTHER                         -> [deps |-> <<>>, err |-> "nil"]

isDependencyFile(filePath) ==
    LowerName(Base(filePath)) \in
        {"package.json", "package-lock.json", "yarn.lock", "go.mod", "go.sum",
         "requirements.txt", "pipfile", "pipfile.lock", "poetry.lock",
         "gemfile", "gemfile.lock", "composer.json", "composer.lock",
         "pom.xml", "build.gradle", "gradle.lockfile", "cargo.toml", "cargo.lock"}

\* an extractCVSSSeverity whose last resort is "low"
extractCVSSSeverityLow(cvssString) ==
    IF /\ Contains(cvssString, <<"/", "AV:", "N", "/">>)
       /\ Contains(cvssString, <<"/", "AC:", "L", "/">>)
    THEN "high"
    ELSE IF Contains(cvssString, <<"/", "PR:", "N", "/">>) THEN "critical"
    ELSE "low"

\* A CVSS vector is the sequence of its pieces, separators included:
\* "CVSS:3.1/AV:N/AC:L" is <<"CVSS:3.1", "/", "AV:", "N", "/", "AC:", "L">>.
extractCVSSSeverity(cvssString) ==
    IF /\ Contains(cvssString, <<"/", "AV:", "N", "/">>)
       /\ Contains(cvssString, <<"/", "AC:", "L", "/">>)
    THEN "high"
    ELSE IF Contains(cvssString, <<"/", "PR:", "N", "/">>) THEN "critical"
    ELSE "medium"

\* the loop of convertOSVVuln over osv.Severity: the last entry that
\* qualifies decides
RECURSIVE SeverityAfter(_, _)
SeverityAfter(sevs, current) ==
    IF sevs = <<>> THEN current
    ELSE LET sv == Head(sevs)
         IN  SeverityAfter(Tail(sevs),
                 IF sv.Type = "CVSS_V3" /\ Contains(sv.Score, <<"CVSS:3.1", "/", "AV:">>)
                 THEN extractCVSSSeverity(sv.Score)
                 ELSE current)

convertOSVVuln(osvVuln, dep) ==
    [ID |-> osvVuln.ID, Summary |-> osvVuln.Summary, Details |-> osvVuln.Details,
     Severity |-> SeverityAfter(osvVuln.Severity, "medium")]

\* the ecosystems of deps, each once, in the order of first appearance
RECURSIVE EcosystemsOf(_)
EcosystemsOf(deps) ==
    IF deps = <<>> THEN <<>>
    ELSE LET rest == EcosystemsOf(SubSeq(deps, 1, Len(deps) - 1))
             eco  == deps[Len(deps)].Ecosystem
         IN  IF \E i \in 1..Len(rest) : rest[i] = eco THEN rest ELSE Append(rest, eco)

\* a loop over the groups that returns the advisories of a failed response
\* together with the error
RECURSIVE QueryGroupsKeepOnFail(_, _, _, _)
QueryGroupsKeepOnFail(deps, ecosystems, g, vulnerabilities) ==
    IF g > Len(ecosystems)
    THEN [vulns |-> vulnerabilities, err |-> "nil", posted |-> <<>>, calls |-> <<>>]
    ELSE LET depList  == SelectSeq(deps, LAMBDA d : d.Ecosystem = ecosystems[g])
             response == osv[ecosystems[g]]
             found    == ConcatAll([i \in 1..Len(response.results) |->
                             IF i <= Len(depList)
                             THEN [k \in 1..Len(response.results[i]) |->
                                     [ID |-> response.results[i][k].ID,
                                      Summary |-> response.results[i][k].Summary,
                                      Details |-> response.results[i][k].Details,
                                      Severity |-> "medium"]]
                             ELSE <<>>])
         IN  IF response.status # "ok"
             THEN [vulns |-> vulnerabilities \o found, err |-> "OSV API request failed",
                   posted |-> <<>>, calls |-> <<>>]
             ELSE QueryGroupsKeepOnFail(deps, ecosystems, g + 1, vulnerabilities \o found)

\* a loop over the groups that reads the results of a response whatever
\* its status
RECURSIVE QueryGroupsAnyStatus(_, _, _, _)
QueryGroupsAnyStatus(deps, ecosystems, g, vulnerabilities) ==
    IF g > Len(ecosystems)
    THEN [vulns |-> vulnerabilities, err |-> "nil", posted |-> <<>>, calls |-> <<>>]
    ELSE LET depList  == SelectSeq(deps, LAMBDA d : d.Ecosystem = ecosystems[g])
             response == osv[ecosystems[g]]
         IN  QueryGroupsAnyStatus(deps, ecosystems, g + 1,
                 vulnerabilities \o
                 ConcatAll([i \in 1..Len(response.results) |->
                     IF i <= Len(depList)
                     THEN [k \in 1..Len(response.results[i]) |->
                             [ID |-> response.results[i][k].ID,
                              Summary |-> response.results[i][k].Summary,
                              Details |-> response.results[i][k].Details,
                              Severity |-> "medium"]]
                     ELSE <<>>]))

mapToOSVEcosystem(ecosystem) == ecosystem

\* the queries of the request built for the dependencies of one ecosystem
Queries(ecosystem, depList) ==
    [i \in 1..Len(depList) |->
        [package |-> [ecosystem |-> mapToOSVEcosystem(ecosystem), name |-> depList[i].Name],
         version |-> depList[i].Version]]

\* a loop over the results that hands the entries beyond the end of the
\* list to the last dependency
ConversionsClamped(depList, rs) ==
    ConcatAll([i \in 1..Len(rs) |->
        IF depList # <<>>
        THEN [k \in 1..Len(rs[i]) |->
                [osv |-> rs[i][k],
                 dep |-> depList[IF i <= Len(depList) THEN i ELSE Len(depList)]]]
        ELSE <<>>])

\* the loop over response.Results: the arguments of the calls of
\* convertOSVVuln, in the order of the calls
Conversions(depList, rs) ==
    ConcatAll([i \in 1..Len(rs) |->
        IF i <= Len(depList)
        THEN [k \in 1..Len(rs[i]) |-> [osv |-> rs[i][k], dep |-> depList[i]]]
        ELSE <<>>])

\* the body of the loop over ecosystem groups, from the group at index g;
\* posted are the requests sent and calls the conversions made.
\* (The order of a Go map range is unspecified; every parser tags all its
\* dependencies with one ecosystem, so a call has a single group.)
RECURSIVE QueryGroups(_, _, _, _)
QueryGroups(deps, ecosystems, g, vulnerabilities) ==
    IF g > Len(ecosystems)
    THEN [vulns |-> vulnerabilities, err |-> "nil", posted |-> <<>>, calls |-> <<>>]
    ELSE LET depList  == SelectSeq(deps, LAMBDA d : d.Ecosystem = ecosystems[g])
             request  == Queries(ecosystems[g], depList)
             response == osv[ecosystems[g]]
             calls    == Conversions(depList, response.results)
         IN  IF response.status # "ok"
             THEN [vulns |-> vulnerabilities, err |-> "OSV API request failed",
                   posted |-> <<request>>, calls |-> <<>>]
             ELSE LET rest == QueryGroups(deps, ecosystems, g + 1,
                                  vulnerabilities \o
                                  [c \in 1..Len(calls) |->
                                      convertOSVVuln(calls[c].osv, calls[c].dep)])
                  IN  [rest EXCEPT !.posted = <<request>> \o @, !.calls = calls \o @]

checkOSVVulnerabilities(deps) == QueryGroups(deps, EcosystemsOf(deps), 1, <<>>)

convertVulnsToIssues(vulns, filePath) ==
    [i \in 1..Len(vulns) |->
        [Type        |-> "vulnerability",
         Severity    |-> vulns[i].Severity,
         File        |-> filePath,
         Line        |-> 1,
         Column      |-> 1,
         Description |-> <<"Vulnerability ", vulns[i].ID, ": ", vulns[i].Summary>>,
         Content     |-> vulns[i].Details,
         Rule        |-> "Dependency Vulnerability Check"]]

scanDependencies(filePath, content) ==
    LET parsed == parseDependencies(filePath, content)
        none(e) == [issues |-> <<>>, err |-> e, posted |-> <<>>, calls |-> <<>>]
    IN  IF parsed.err # "nil" THEN none("failed to parse dependencies")
        ELSE IF Len(parsed.deps) = 0 THEN none("nil")
        ELSE IF cfg.DependencyAPIs.OSVEnabled
             THEN LET checked == checkOSVVulnerabilities(parsed.deps)
                  IN  [issues |-> IF checked.err # "nil" /\ cfg.Verbose
                                  THEN <<>>
                                  ELSE convertVulnsToIssues(checked.vulns, filePath),
                       err    |-> "nil",
                       posted |-> checked.posted,
                       calls  |-> checked.calls]
             ELSE none("nil")

\* a scanFile that runs the three matchers whatever the scan type
scanFileEveryKind(filePath, type) ==
    LET e == fs[filePath]
    IN  IF e.readErr THEN <<>>
        ELSE IF e.size > cfg.MaxFileSize THEN <<>>
        ELSE IF isBinary(JoinLines(e.content)) THEN <<>>
        ELSE scanSecrets(filePath, e.content)
             \o (IF isDependencyFile(filePath)
                 THEN scanDependencies(filePath, e.content).issues ELSE <<>>)
             \o (IF cfg.SocialEngineering.Enabled
                 THEN scanSocialEngineering(filePath, e.content) ELSE <<>>)

scanFile(filePath, type) ==
    LET e == fs[filePath]
    IN  IF e.readErr THEN <<>>
        ELSE IF e.size > cfg.MaxFileSize THEN <<>>
        ELSE IF isBinary(JoinLines(e.content)) THEN <<>>
        ELSE (IF type \in {"all", "secrets"}
              THEN scanSecrets(filePath, e.content) ELSE <<>>)
             \o
             (IF type \in {"all", "dependencies"} /\ isDependencyFile(filePath)
              THEN scanDependencies(filePath, e.content).issues ELSE <<>>)
             \o
             (IF type \in {"all", "social"} /\ cfg.SocialEngineering.Enabled
              THEN scanSocialEngineering(filePath, e.content) ELSE <<>>)

\* a calculateSummary that counts a Finding in Total only when its severity
\* is one of the four
calculateSummaryKnownOnly(list) ==
    LET n(sev) == Cardinality({i \in 1..Len(list) : list[i].Severity = sev})
    IN  [Critical |-> n("critical"), High |-> n("high"), Medium |-> n("medium"),
         Low |-> n("low"),
         Total |-> n("critical") + n("high") + n("medium") + n("low")]

calculateSummary(list) ==
    LET n(sev) == Cardinality({i \in 1..Len(list) : list[i].Severity = sev})
    IN  [Critical |-> n("critical"), High |-> n("high"), Medium |-> n("medium"),
         Low |-> n("low"), Total |-> Len(list)]

(***************************************************************************)
(* ScanPath                                                                *)
(***************************************************************************)
IssuesCap == 100        \* capacity of the issues channel

\* the Findings of a list as a multiset: each Finding with its multiplicity
BagOf(list) ==
    [x \in {list[i] : i \in 1..Len(list)} |->
        Cardinality({i \in 1..Len(list) : list[i] = x})]

\* lines 130-153: whether scanFile returns before it scans filePath, because
\* the file cannot be read, is larger than MaxFileSize or is binary
Skips(filePath) ==
    \/ fs[filePath].readErr
    \/ fs[filePath].size > cfg.MaxFileSize
    \/ isBinary(JoinLines(fs[filePath].content))

\* a Collect that counts only the files scanFile does not skip
CollectCountsScanned ==
    /\ pc = "start"
    /\ LET collected == collectFiles(Root)
       IN  IF collected.err # "nil"
           THEN /\ pc' = "returned"
                /\ ret' = <<[results |-> <<>>, err |-> "failed to collect files"]>>
                /\ UNCHANGED <<files, results, wpc, pending>>
           ELSE /\ files' = collected.files
                /\ results' = [results EXCEPT !.FilesScanned =
                                  Len(SelectSeq(collected.files, LAMBDA f : ~Skips(f)))]
                /\ wpc' = [i \in 1..Len(collected.files) |-> "unborn"]
                /\ pending' = [i \in 1..Len(collected.files) |-> <<>>]
                /\ pc' = IF cfg.MaxConcurrency < 0 THEN "panic" ELSE "dispatch"
                /\ ret' = ret
    /\ UNCHANGED <<call, cfg, scanType, fs, osv, semaphore, wg, issues,
                   closed, run, prev>>

\* lines 72-90: collect the files, count them, make the channels
Collect ==
    /\ pc = "start"
    /\ LET collected == collectFiles(Root)
       IN  IF collected.err # "nil"
           THEN /\ pc' = "returned"
                /\ ret' = <<[results |-> <<>>, err |-> "failed to collect files"]>>
                /\ UNCHANGED <<files, results, wpc, pending>>
           ELSE /\ files' = collected.files
                /\ results' = [results EXCEPT !.FilesScanned = Len(collected.files)]
                /\ wpc' = [i \in 1..Len(collected.files) |-> "unborn"]
                /\ pending' = [i \in 1..Len(collected.files) |-> <<>>]
                /\ pc' = IF cfg.MaxConcurrency < 0 THEN "panic" ELSE "dispatch"
                /\ ret' = ret
    /\ UNCHANGED <<call, cfg, scanType, fs, osv, semaphore, wg, issues,
                   closed, run, prev>>

\* lines 92-113: the dispatch loop, wg.Add(1) and go for every file; then
\* the closer is started and the range loop entered
Dispatch ==
    /\ pc = "dispatch"
    /\ wg' = wg + Len(files)
    /\ wpc' = [i \in 1..Len(files) |-> "acquire"]
    /\ pc' = "collect"
    /\ UNCHANGED <<call, ret, cfg, scanType, fs, osv, files, pending, semaphore,
                   issues, closed, results, run, prev>>

\* an Acquire that ignores the capacity of the semaphore channel
AcquireGuardNone(i) == TRUE

\* whether the send on the semaphore channel (line 96) can proceed
AcquireGuard(i) == semaphore < cfg.MaxConcurrency

\* line 96: semaphore <- struct{}{}
Acquire(i) ==
    /\ wpc[i] = "acquire"
    /\ AcquireGuard(i)
    /\ semaphore' = semaphore + 1
    /\ wpc' = [wpc EXCEPT ![i] = "scan"]
    /\ UNCHANGED <<call, ret, cfg, scanType, fs, osv, pc, files, pending,
                   wg, issues, closed, results, run, prev>>

\* line 99: fileIssues := s.scanFile(f, scanType)
ScanFile(i) ==
    /\ wpc[i] = "scan"
    /\ pending' = [pending EXCEPT ![i] = scanFile(files[i], scanType)]
    /\ wpc' = [wpc EXCEPT ![i] = "send"]
    /\ UNCHANGED <<call, ret, cfg, scanType, fs, osv, pc, files, semaphore,
                   wg, issues, closed, results, run, prev>>

\* a send that drops the Finding when another one is already buffered
IssuesAfterSendLossy(i) ==
    IF issues = <<>> THEN Append(issues, Head(pending[i])) ELSE issues

\* a send that puts the Finding at the head of the channel
IssuesAfterSendFront(i) == <<Head(pending[i])>> \o issues

\* the issues channel after worker i has sent its next Finding
IssuesAfterSend(i) == Append(issues, Head(pending[i]))

\* a worker that appends its Finding to Results.Issues itself
SendIssueDirect(i) ==
    /\ wpc[i] = "send"
    /\ pending[i] # <<>>
    /\ results' = [results EXCEPT !.Issues = Append(@, Head(pending[i]))]
    /\ pending' = [pending EXCEPT ![i] = Tail(pending[i])]
    /\ UNCHANGED <<call, ret, cfg, scanType, fs, osv, pc, files, wpc,
                   semaphore, wg, issues, closed, run, prev>>

\* lines 100-102: issues <- issue
SendIssue(i) ==
    /\ wpc[i] = "send"
    /\ pending[i] # <<>>
    /\ ~closed
    /\ Len(issues) < IssuesCap
    /\ issues' = IssuesAfterSend(i)
    /\ pending' = [pending EXCEPT ![i] = Tail(pending[i])]
    /\ UNCHANGED <<call, ret, cfg, scanType, fs, osv, pc, files, wpc,
                   semaphore, wg, closed, results, run, prev>>

\* line 97, deferred: <-semaphore
Release(i) ==
    /\ wpc[i] = "send"
    /\ pending[i] = <<>>
    /\ semaphore > 0
    /\ semaphore' = semaphore - 1
    /\ wpc' = [wpc EXCEPT ![i] = "released"]
    /\ UNCHANGED <<call, ret, cfg, scanType, fs, osv, pc, files, pending,
                   wg, issues, closed, results, run, prev>>

\* line 95, deferred: wg.Done()
Done(i) ==
    /\ wpc[i] = "released"
    /\ wg' = wg - 1
    /\ wpc' = [wpc EXCEPT ![i] = "done"]
    /\ UNCHANGED <<call, ret, cfg, scanType, fs, osv, pc, files, pending,
                   semaphore, issues, closed, results, run, prev>>

\* a closer that does not wait for the workers
CloserGuardNoWait == TRUE

\* whether wg.Wait() (line 108) returns
CloserGuard == wg = 0

\* lines 107-110: wg.Wait(); close(issues)
CloseIssues ==
    /\ pc = "collect"
    /\ ~closed
    /\ CloserGuard
    /\ closed' = TRUE
    /\ UNCHANGED <<call, ret, cfg, scanType, fs, osv, pc, files, wpc, pending,
                   semaphore, wg, issues, results, run, prev>>

\* a range loop that starts only when the channel has been closed
ReceiveAfterJoin ==
    /\ pc = "collect"
    /\ closed
    /\ issues # <<>>
    /\ results' = [results EXCEPT !.Issues = Append(@, Head(issues))]
    /\ issues' = Tail(issues)
    /\ UNCHANGED <<call, ret, cfg, scanType, fs, osv, pc, files, wpc, pending,
                   semaphore, wg, closed, run, prev>>

\* lines 113-115: one iteration of the range loop
Receive ==
    /\ pc = "collect"
    /\ issues # <<>>
    /\ results' = [results EXCEPT !.Issues = Append(@, Head(issues))]
    /\ issues' = Tail(issues)
    /\ UNCHANGED <<call, ret, cfg, scanType, fs, osv, pc, files, wpc, pending,
                   semaphore, wg, closed, run, prev>>

\* line 113: the range loop ends when the channel is closed and drained
EndRange ==
    /\ pc = "collect"
    /\ issues = <<>>
    /\ closed
    /\ pc' = "summary"
    /\ UNCHANGED <<call, ret, cfg, scanType, fs, osv, files, wpc, pending,
                   semaphore, wg, issues, closed, results, run, prev>>

\* lines 117-125: calculate the summary and return
Return ==
    /\ pc = "summary"
    /\ results' = [results EXCEPT !.Summary = calculateSummary(results.Issues)]
    /\ ret' = <<[results |-> <<results'>>, err |-> "nil"]>>
    /\ pc' = "returned"
    /\ UNCHANGED <<call, cfg, scanType, fs, osv, files, wpc, pending,
                   semaphore, wg, issues, closed, run, prev>>

\* the caller raises the concurrency limit from 1 to 8 and calls ScanPath
\* again on the same tree (lines 72-77: a fresh Results)
Rescan ==
    /\ pc = "returned"
    /\ run = 1
    /\ ret[1].err = "nil"
    /\ cfg.MaxConcurrency = 1
    /\ prev' = BagOf(results.Issues)
    /\ run' = 2
    /\ cfg' = [cfg EXCEPT !.MaxConcurrency = 8]
    /\ pc' = "start"
    /\ ret' = <<>>
    /\ files' = <<>>
    /\ wpc' = <<>>
    /\ pending' = <<>>
    /\ semaphore' = 0
    /\ wg' = 0
    /\ issues' = <<>>
    /\ closed' = FALSE
    /\ results' = NoResults
    /\ UNCHANGED <<call, scanType, fs, osv>>

Worker(i) == Acquire(i) \/ ScanFile(i) \/ SendIssue(i) \/ Release(i) \/ Done(i)

Next ==
    \/ Collect
    \/ Dispatch
    \/ \E i \in 1..Len(files) : Worker(i)
    \/ CloseIssues
    \/ Receive
    \/ EndRange
    \/ Return
    \/ Rescan

(***************************************************************************)
(* Spec: ScanPath called on a root directory that holds at most MaxFiles   *)
(* of the entries below, under every configuration below, and called a     *)
(* second time with concurrency limit 8 when the limit was 1.              *)
(***************************************************************************)
LongRegexp == [Prefix |-> <<"K">>, Class |-> {"a", "b"}, Count |-> 10, Group |-> TRUE]

LongPattern(severity) == SecretPattern("Secret Key", severity, LongRegexp)

\* fileInfo.Size() of a file with these lines
SizeOf(content) == Len(JoinLines(content))

TextFile(content) == Entry("file", FALSE, FALSE, SizeOf(content), content, NoManifest)

ManifestFile(content, deps) ==
    Entry("file", FALSE, FALSE, SizeOf(content), content,
          [err |-> FALSE, deps |-> deps, devDeps |-> <<>>])

\* the entries a scan root of the model can hold
Fixture(path) ==
    CASE path = <<"proj">> -> EmptyDir
      [] path = <<"proj", "a.go">> ->
            \* the same key twice on one line, and a whitelisted key
            TextFile(<< <<"k", "a", "k", "a">>, <<"k", "T">> >>)
      [] path = <<"proj", "b.md">> ->
            TextFile(<< <<"o", "k">> >>)
      [] path = <<"proj", "c.env">> ->
            \* a suspicious keyword and a long secret on one line
            TextFile(<< <<"h", " ", "K", "a", "b", "b", "a", "a", "b",
                          "a", "b", "b", "a">> >>)
      [] path = <<"proj", "package.json">> ->
            ManifestFile(<< <<"{", "}">> >>,
                         << [Name |-> "left-pad", Version |-> <<"1.3.0">>],
                            [Name |-> "lodash", Version |-> <<"^", "4.0.0">>] >>)
      [] path = <<"proj", "vendor">> -> EmptyDir
      [] path = <<"proj", "vendor", "a.go">> ->
            TextFile(<< <<"k", "a">> >>)
      [] path = <<"proj", "vendor", "lib.so">> ->
            TextFile(<< <<"k", "a">> >>)

RootEntries == {"a.go", "b.md", "c.env", "package.json", "vendor"}

TreeOf(entries) ==
    LET paths == {<<"proj">>} \cup {<<"proj", n>> : n \in entries}
                    \cup (IF "vendor" \in entries
                          THEN {<<"proj", "vendor", "a.go">>, <<"proj", "vendor", "lib.so">>}
                          ELSE {})
    IN  [p \in paths |-> Fixture(p)]

Trees == {TreeOf(es) : es \in {x \in SUBSET RootEntries : Cardinality(x) <= MaxFiles}}

HighVector == <<"CVSS:3.1", "/", "AV:", "N", "/", "AC:", "L", "/", "PR:", "N", "/", "UI:", "N">>

Advisory(id, severity) ==
    [ID |-> id, Summary |-> "advisory", Details |-> <<"d">>, Severity |-> severity]

\* the answers of the advisory service: a failure, or no advisory for the
\* first query and one advisory with a CVSS vector for the second
OsvAnswers ==
    {[status |-> "fail", results |-> <<>>],
     [status |-> "ok",
      results |-> << <<>>,
                     <<Advisory("GHSA-1", <<[Type |-> "CVSS_V3", Score |-> HighVector]>>)>> >>]}

Concurrencies == {-1, 0, 1, 2}

ScanTypes == {"all", "secrets", "dependencies", "social"}

Configs ==
    {Config(FALSE, <<KeyPattern(severity), LongPattern("critical")>>, <<<<"t">>>>,
            16, TRUE, social, <<<<"h">>>>, conc) :
        severity \in {"high", "info"}, social \in BOOLEAN, conc \in Concurrencies}

Init ==
    /\ call = [fn |-> "ScanPath"]
    /\ ret = <<>>
    /\ cfg \in Configs
    /\ scanType \in ScanTypes
    /\ fs \in Trees
    /\ osv \in {[e \in {"npm"} |-> a] : a \in OsvAnswers}
    /\ pc = "start"
    /\ files = <<>>
    /\ wpc = <<>>
    /\ pending = <<>>
    /\ semaphore = 0
    /\ wg = 0
    /\ issues = <<>>
    /\ closed = FALSE
    /\ results = NoResults
    /\ run = 1
    /\ prev = <<>>

Spec == Init /\ [][Next]_vars

(***************************************************************************)
(* properties of ScanPath                                                  *)
(***************************************************************************)
\* the workers whose file scan is in flight: past line 96, not past line 97
InFlight == {i \in 1..Len(wpc) : wpc[i] \in {"scan", "send"}}

\* whether ScanPath has returned Results to its caller
Returned == pc = "returned" /\ ret # <<>> /\ ret[1].err = "nil"

\* the Results value ScanPath has returned
Returns == ret[1].results[1]

\* the Findings the per-file scans of the collected files return
FileFindings == ConcatAll([i \in 1..Len(files) |-> scanFile(files[i], scanType)])

\* C1: with a configured concurrency N >= 1, at every moment at most N file
\* scans are in flight.
C1_InFlightBounded ==
    cfg.MaxConcurrency >= 1 => Cardinality(InFlight) <= cfg.MaxConcurrency

\* the limit is reached while another worker waits for a slot
C1_Witness ==
    /\ cfg.MaxConcurrency >= 1
    /\ Cardinality(InFlight) = cfg.MaxConcurrency
    /\ \E i \in 1..Len(wpc) : wpc[i] = "acquire"

\* C2: when ScanPath has returned, every worker has finished and each
\* Finding of each per-file scan is in Results.Issues exactly once; and a
\* summary has been computed only when all that is so.
C2_ReturnsAfterAllCollected ==
    (Returned \/ results.Summary # NoResults.Summary)
        => /\ \A i \in 1..Len(wpc) : wpc[i] = "done"
           /\ issues = <<>>
           /\ BagOf(results.Issues) = BagOf(FileFindings)
           /\ Returned => Returns.Issues = results.Issues

\* ScanPath has returned the Findings of three files, two of them equal
\* Findings of one file
C2_Witness ==
    /\ Returned
    /\ Cardinality({Returns.Issues[i].File : i \in 1..Len(Returns.Issues)}) = 3
    /\ \E i, j \in 1..Len(Returns.Issues) : i # j /\ Returns.Issues[i] = Returns.Issues[j]

\* C3: the call with concurrency 8 returns the same multiset of Findings as
\* the call with concurrency 1 on the same tree did.
C3_SameFindings ==
    (run = 2 /\ Returned) => BagOf(Returns.Issues) = prev

\* the second call has returned Findings of several files, not in the order
\* of the files
C3_Witness ==
    /\ run = 2
    /\ Returned
    /\ cfg.MaxConcurrency = 8
    /\ Len(Returns.Issues) >= 3
    /\ Returns.Issues[1].File = files[Len(files)]
    /\ Returns.Issues[Len(Returns.Issues)].File = files[1]

\* C4 as stated: for every configured concurrency value from 0 up and every
\* non-empty set of eligible files, a file scan can be in flight and
\* ScanPath goes on until it returns: it never stops before returning.
C4_NeverStuck ==
    (cfg.MaxConcurrency >= 0 /\ Len(files) > 0)
        => (pc = "returned" \/ ENABLED Next)

\* C5 as stated: every Results value returned satisfies
\* Total = Critical + High + Medium + Low = len(Issues).
C5_SummaryAddsUp ==
    Returned
        => LET sm == Returns.Summary
           IN  /\ sm.Total = sm.Critical + sm.High + sm.Medium + sm.Low
               /\ sm.Total = Len(Returns.Issues)

\* the values (first capture group, else whole match) of the matches that
\* scanSecrets reported for the file at path
ReportedSecrets(path) ==
    IF scanType \notin {"all", "secrets"} THEN {}
    ELSE UNION {
            LET ms == FindAllStringSubmatch(cfg.SecretPatterns[p].compiled,
                                            fs[path].content[ln])
            IN  {MatchedValue(ms[j]) : j \in {k \in 1..Len(ms) : ~isWhitelisted(ms[k][1])}}
            : ln \in 1..Len(fs[path].content), p \in 1..Len(cfg.SecretPatterns)}

\* C8 as stated: no Finding of the returned Results, of any kind, has a
\* content that contains the unmasked value of a secret matched in its file.
C8_NoRawSecretInResults ==
    Returned
        => \A i \in 1..Len(Returns.Issues) :
              \A secret \in ReportedSecrets(Returns.Issues[i].File) :
                  ~Contains(Returns.Issues[i].Content, secret)

\* the worker goroutines that exist: started and not yet returned
Existing == {i \in 1..Len(wpc) : wpc[i] \notin {"unborn", "done"}}

\* C24 as stated: with a configured concurrency N >= 1, at every moment at
\* most N worker goroutines exist, whatever the number of files.
C24_FixedPool ==
    cfg.MaxConcurrency >= 1 => Cardinality(Existing) <= cfg.MaxConcurrency

\* whether a step appends to Results.Issues
Appends == Len(results'.Issues) > Len(results.Issues)

OversizedFile == TextFile(<< <<"k", "a">> \o [i \in 1..15 |-> " "] >>)

\* a.go with a key and a NUL byte
BinaryFile == TextFile(<< <<"k", "a", "NUL">> >>)

FaultyTrees ==
    UNION {
        {[t EXCEPT ![p].lstatErr = TRUE] : p \in DOMAIN t}
        \cup {[t EXCEPT ![p].readErr = TRUE] : p \in DOMAIN t}
        \cup (IF <<"proj", "a.go">> \in DOMAIN t
              THEN {[t EXCEPT ![<<"proj", "a.go">>] = OversizedFile],
                    [t EXCEPT ![<<"proj", "a.go">>] = BinaryFile]}
              ELSE {})
        : t \in Trees}

FaultConfigs ==
    {Config(FALSE, <<KeyPattern("high"), LongPattern("critical")>>, <<<<"t">>>>,
            16, TRUE, TRUE, <<<<"h">>>>, conc) : conc \in {1}}

FaultInit ==
    /\ call = [fn |-> "ScanPath"]
    /\ ret = <<>>
    /\ cfg \in FaultConfigs
    /\ scanType \in ScanTypes
    /\ fs \in FaultyTrees
    /\ osv \in {[e \in {"npm"} |-> a] : a \in OsvAnswers}
    /\ pc = "start"
    /\ files = <<>>
    /\ wpc = <<>>
    /\ pending = <<>>
    /\ semaphore = 0
    /\ wg = 0
    /\ issues = <<>>
    /\ closed = FALSE
    /\ results = NoResults
    /\ run = 1
    /\ prev = <<>>

FaultSpec == FaultInit /\ [][Next]_vars

\* the entries on which the traversal meets an error: those that cannot be
\* stat'ed and the directories that cannot be read
TraversalFaults == {p \in DOMAIN fs : fs[p].lstatErr \/ (fs[p].kind = "dir" /\ fs[p].readErr)}

\* the files the traversal is to collect when it omits the entries with a
\* traversal error: eligible, below no skipped directory, below no such entry
Collectable ==
    {p \in DOMAIN fs :
        /\ fs[p].kind = "file"
        /\ shouldScanFile(p)
        /\ ~BelowSkippedDir(p)
        /\ \A k \in 1..Len(p) : SubSeq(p, 1, k) \notin TraversalFaults}

\* C29: Results.FilesScanned is the number of collected paths from the
\* moment the traversal has ended and does not change while the files are
\* scanned; in the Results returned it is the number of files the traversal
\* is to collect, those that scanFile skips as unreadable, oversized or
\* binary included; and when no file is to be collected the Results hold
\* FilesScanned 0, no Finding and an all-zero summary.
C29_FilesScannedCountsCollected ==
    /\ [](results.FilesScanned = Len(files))
    /\ [](Returned =>
            /\ Returns.FilesScanned = Cardinality(Collectable)
            /\ Collectable = {} => Returns = NoResults)
    /\ [][(pc # "start" /\ pc' # "start")
            => results'.FilesScanned = results.FilesScanned]_vars

\* ScanPath has returned Results that count two files, one of which
\* scanFile skipped, with a Finding of the other
C29_Witness ==
    /\ Returned
    /\ Returns.FilesScanned = 2
    /\ \E i \in 1..Len(files) : Skips(files[i])
    /\ Returns.Issues # <<>>

\* C11 as stated: when the traversal meets an error on one entry other than
\* the root, ScanPath returns Results without error and every eligible file
\* other than that entry has been collected.
C11_EntryErrorSwallowed ==
    (pc = "returned" /\ TraversalFaults # {} /\ Root \notin TraversalFaults)
        => /\ ret[1].err = "nil"
           /\ Collectable = {files[i] : i \in 1..Len(files)}

\* C12: when the scan root cannot be stat'ed, or is a directory that cannot
\* be read, ScanPath returns an error and no Results, and no file is
\* collected or scanned.
C12_RootErrorIsFatal ==
    (Root \in TraversalFaults /\ pc # "start")
        => /\ pc = "returned"
           /\ ret = <<[results |-> <<>>, err |-> "failed to collect files"]>>
           /\ files = <<>>
           /\ wpc = <<>>

\* ScanPath has returned on a root directory that holds files and cannot be read
C12_Witness ==
    /\ pc = "returned"
    /\ fs[Root].readErr
    /\ \E p \in DOMAIN fs : Len(p) = 2 /\ fs[p].kind = "file" /\ shouldScanFile(p)

\* the collected files whose scan stops before the matchers: unreadable,
\* larger than MaxFileSize, or with a NUL byte
FailingFiles ==
    {i \in 1..Len(files) :
        LET e == fs[files[i]]
        IN  \/ e.readErr
            \/ e.size > cfg.MaxFileSize
            \/ \E ln \in 1..Len(e.content) : \E k \in 1..Len(e.content[ln]) :
                  e.content[ln][k] = "NUL"}

\* the Findings of the collected files other than the failing ones
FindingsOfOthers ==
    ConcatAll([i \in 1..Len(files) |->
                  IF i \in FailingFiles THEN <<>> ELSE scanFile(files[i], scanType)])

\* C13: with a collected file that is unreadable, oversized or binary,
\* ScanPath still returns Results with a nil error; no Finding is of that
\* file and the Findings are those of the other files.
C13_FailingFileIsolated ==
    (pc = "returned" /\ FailingFiles # {})
        => /\ Returned
           /\ \A i \in FailingFiles : \A k \in 1..Len(Returns.Issues) :
                 Returns.Issues[k].File # files[i]
           /\ BagOf(Returns.Issues) = BagOf(FindingsOfOthers)

\* ScanPath has returned Findings of other files while a.go, which holds a
\* key, was unreadable, oversized or binary
C13_Witness ==
    /\ Returned
    /\ \E i \in FailingFiles : files[i] = <<"proj", "a.go">>
    /\ Len(Returns.Issues) > 0

(***************************************************************************)
(* ManifestSpec: parseDependencies applied to a JSON manifest that         *)
(* declares one package with a version of at most MaxVersionLen pieces,    *)
(* and to every line-based manifest of at most MaxManifestLines lines.     *)
(***************************************************************************)
RangeOperators == {"^", "~", ">", "<", "="}

VersionAlphabet == RangeOperators \cup {" ", "1.3.0"}

\* a JSON manifest that declares pkg at version v, and dev for development
JSONManifest(name, pkg, v, dev) ==
    [path    |-> <<"proj", name>>,
     content |-> << <<"{", "}">> >>,
     manifest |-> [err |-> FALSE,
                   deps |-> <<[Name |-> pkg, Version |-> v]>>,
                   devDeps |-> dev]]

GoModLines ==
    {<<>>,
     <<"module", " ", "m">>,
     <<"require", " ", "(">>,
     <<")">>,
     <<"\t", "m", " ", "v", "1.0">>,
     <<"\t", "/", "/", " ", "m", " ", "v", "1.0">>,
     <<"require", " ", "m", " ", "v", "1.0">>}

RequirementsLines ==
    {<<>>,
     <<"flask", "=", "=", "1.0">>,
     <<"#", " ", "flask", "=", "=", "1.0">>,
     <<" ", "flask", ">", "=", "1.0">>,
     <<"flask">>}

GemfileLines ==
    {<<>>,
     <<"gem", " ", "'", "rails", "'", ",", " ", "'", "1.0", "'">>,
     <<"#", " ", "gem", " ", "'", "rails", "'", ",", " ", "'", "1.0", "'">>,
     <<" ", "#", "gem", " ", "\"", "rails", "\"", ",", "\"", "1.0", "\"">>,
     <<"gem", " ", "'", "rails", "'">>}

CargoLines ==
    {<<>>,
     <<"[", "dependencies", "]">>,
     <<"[", "package", "]">>,
     <<"serde", " ", "=", " ", "\"", "1.0", "\"">>,
     <<"#", " ", "serde", "=", "\"", "1.0", "\"">>}

LineFormats ==
    {[name |-> "go.mod", lines |-> GoModLines],
     [name |-> "requirements.txt", lines |-> RequirementsLines],
     [name |-> "Gemfile", lines |-> GemfileLines],
     [name |-> "Cargo.toml", lines |-> CargoLines]}

\* the texts of at most MaxManifestLines lines, each line one of lines
TextsOf(lines) == UNION {[1..n -> lines] : n \in 0..MaxManifestLines}

LineManifest(name, content) ==
    [path |-> <<"proj", name>>, content |-> content, manifest |-> NoManifest]

\* the file tree that holds the manifest m alone
TreeWith(m) ==
    [p \in {<<"proj">>, m.path} |->
        IF p = <<"proj">> THEN EmptyDir
        ELSE Entry("file", FALSE, FALSE, SizeOf(m.content), m.content, m.manifest)]

ManifestInit ==
    /\ \/ \E name \in {"package.json", "composer.json"}, pkg \in {"left-pad", "php"},
             dev \in {<<>>, <<[Name |-> "left-pad", Version |-> <<"1.3.0">>]>>} :
             \E v \in Strings(VersionAlphabet, MaxVersionLen) :
                LET m == JSONManifest(name, pkg, v, dev)
                IN  /\ call = [fn |-> "parseDependencies", filePath |-> m.path,
                               content |-> m.content]
                    /\ fs = TreeWith(m)
       \/ \E f \in LineFormats : \E c \in TextsOf(f.lines) :
             LET m == LineManifest(f.name, c)
             IN  /\ call = [fn |-> "parseDependencies", filePath |-> m.path,
                            content |-> m.content]
                 /\ fs = TreeWith(m)
    /\ ret = <<>>
    /\ cfg = UnitConfig(<<>>, <<>>)
    /\ scanType = "dependencies"
    /\ osv = <<>>
    /\ NoScan

CallParseDependencies ==
    /\ call.fn = "parseDependencies"
    /\ ret = <<>>
    /\ ret' = <<parseDependencies(call.filePath, call.content)>>
    /\ UNCHANGED <<call, cfg, scanType, fs, osv, scanVars>>

ManifestNext == CallParseDependencies

ManifestSpec == ManifestInit /\ [][ManifestNext]_vars

\* whether parseDependencies has returned for a manifest of the given names
Parsed(names) == call.fn = "parseDependencies" /\ ret # <<>> /\ Base(call.filePath) \in names

\* the name/version pairs a JSON manifest declares
Declared == fs[call.filePath].manifest.deps \o fs[call.filePath].manifest.devDeps

\* C19 as stated: the version of every Dependency record of a JSON manifest
\* does not begin with a range operator; and a package declared alone with a
\* version that holds no range operator yields exactly one record, with
\* that version unchanged.
C19_RangeOperatorsStripped ==
    Parsed({"package.json", "composer.json"})
        => /\ \A i \in 1..Len(ret[1].deps) :
                 LET v == ret[1].deps[i].Version
                 IN  v = <<>> \/ v[1] \notin RangeOperators
           /\ (/\ Len(Declared) = 1
               /\ Declared[1].Name # "php"
               /\ \A k \in 1..Len(Declared[1].Version) :
                     Declared[1].Version[k] \notin RangeOperators \cup {" "})
                 => /\ Len(ret[1].deps) = 1
                    /\ ret[1].deps[1].Version = Declared[1].Version

\* whether a line of the manifest at path is a comment line or a blank line
CommentOrBlank(path, line) ==
    LET trimmed == TrimSpace(line)
    IN  \/ trimmed = <<>>
        \/ IF Base(path) = "go.mod" THEN HasPrefix(trimmed, <<"/", "/">>)
           ELSE HasPrefix(trimmed, <<"#">>)

\* whether a text has a line that opens the section dependencies are read from
HasSection(path, content) ==
    CASE Base(path) = "go.mod" ->
            \E k \in 1..Len(content) : HasPrefix(TrimSpace(content[k]), <<"require">>)
      [] Base(path) = "Cargo.toml" ->
            \E k \in 1..Len(content) : TrimSpace(content[k]) = DependenciesTable
      [] OTHER -> TRUE

ProbedFile == <<"proj", "package.json">>

\* the lengths of the run of blanks
PadLengths == {0, BinaryProbe - 2, BinaryProbe - 1, BinaryProbe, BinaryProbe + 1}

ProbedContents ==
    {<< [i \in 1..n |-> " "] \o nul \o <<"k", "a", " ", "h">> >> :
        n \in PadLengths, nul \in {<<>>, <<"NUL">>}}

ScanFileInit ==
    /\ call = [fn |-> "scanFile", filePath |-> ProbedFile]
    /\ ret = <<>>
    /\ scanType \in ScanTypes
    /\ \E content \in ProbedContents :
          /\ fs = [p \in {<<"proj">>, ProbedFile} |->
                     IF p = <<"proj">> THEN EmptyDir
                     ELSE ManifestFile(content,
                              <<[Name |-> "left-pad", Version |-> <<"1.3.0">>]>>)]
          /\ \E social \in BOOLEAN, d \in {-1, 0, 1} :
                cfg = Config(FALSE, <<KeyPattern("high")>>, <<>>, SizeOf(content) + d,
                             TRUE, social, <<<<"h">>>>, 1)
    /\ osv = [e \in {"npm"} |->
                [status |-> "ok", results |-> << <<Advisory("GHSA-1", <<>>)>> >>]]
    /\ NoScan

CallScanFile ==
    /\ call.fn = "scanFile"
    /\ ret = <<>>
    /\ ret' = <<scanFile(call.filePath, scanType)>>
    /\ UNCHANGED <<call, cfg, scanType, fs, osv, scanVars>>

ScanFileNext == CallScanFile

ScanFileSpec == ScanFileInit /\ [][ScanFileNext]_vars

\* the bytes of the probed file
ProbedData == JoinLines(fs[ProbedFile].content)

\* the kinds of the Findings scanFile has returned
KindsFound == {ret[1][i].Type : i \in 1..Len(ret[1])}

\* the matchers the scan category and the configuration enable
KindsEnabled ==
    (IF scanType \in {"all", "secrets"} THEN {"secret"} ELSE {})
    \cup (IF scanType \in {"all", "dependencies"} THEN {"vulnerability"} ELSE {})
    \cup (IF scanType \in {"all", "social"} /\ cfg.SocialEngineering.Enabled
          THEN {"social"} ELSE {})

\* C14: scanFile returns no Finding of any matcher when the size of the file
\* is strictly greater than MaxFileSize or a NUL byte stands at an index
\* below min(len, 512); otherwise every enabled matcher has run on it.
C14_ExclusionExact ==
    (call.fn = "scanFile" /\ ret # <<>>)
        => IF \/ fs[ProbedFile].size > cfg.MaxFileSize
              \/ \E i \in 0..511 : i < Len(ProbedData) /\ ProbedData[i + 1] = "NUL"
           THEN ret[1] = <<>>
           ELSE KindsFound = KindsEnabled

\* scanFile has run all three matchers on a file of exactly MaxFileSize
\* bytes with a NUL byte at index 512
C14_Witness ==
    /\ call.fn = "scanFile"
    /\ ret # <<>>
    /\ fs[ProbedFile].size = cfg.MaxFileSize
    /\ Len(ProbedData) > 512
    /\ ProbedData[513] = "NUL"
    /\ KindsFound = {"secret", "vulnerability", "social"}

\* C22: with the scan type secrets every Finding scanFile returns is of
\* kind secret, with the scan type dependencies every Finding is of kind
\* vulnerability, and a Finding of kind social is returned only when the
\* scan type is all or social and social detection is enabled.
C22_CategoryRestrictsKinds ==
    (call.fn = "scanFile" /\ ret # <<>>)
        => /\ scanType = "secrets" => KindsFound \subseteq {"secret"}
           /\ scanType = "dependencies" => KindsFound \subseteq {"vulnerability"}
           /\ "social" \in KindsFound
                 => scanType \in {"all", "social"} /\ cfg.SocialEngineering.Enabled

\* with the scan type secrets and social detection enabled, scanFile has
\* returned only the secret of a manifest that holds a suspicious keyword
\* and declares a package with an advisory
C22_Witness ==
    /\ call.fn = "scanFile"
    /\ ret # <<>>
    /\ scanType = "secrets"
    /\ cfg.SocialEngineering.Enabled
    /\ isDependencyFile(call.filePath)
    /\ Contains(ProbedData, <<"h">>)
    /\ KindsFound = {"secret"}

(***************************************************************************)
(* DepsSpec: ScanPath called on a root directory that holds at most        *)
(* MaxFiles manifests of two ecosystems, one of them not JSON and one with *)
(* a basename no parser is selected for, while the advisory service        *)
(* answers or fails for each ecosystem.                                    *)
(***************************************************************************)
DepsFixture(path) ==
    CASE path = <<"proj">> -> EmptyDir
      [] path = <<"proj", "Package.json">> ->
            ManifestFile(<< <<"k", "a">> >>,
                         <<[Name |-> "left-pad", Version |-> <<"1.3.0">>]>>)
      [] path = <<"proj", "package.json">> ->
            \* not JSON: a key and a suspicious keyword
            Entry("file", FALSE, FALSE, 4, << <<"k", "a", " ", "h">> >>,
                  [err |-> TRUE, deps |-> <<>>, devDeps |-> <<>>])
      [] path = <<"proj", "package-lock.json">> ->
            ManifestFile(<< <<"{", "}">> >>,
                         <<[Name |-> "left-pad", Version |-> <<"1.3.0">>]>>)
      [] path = <<"proj", "requirements.txt">> ->
            TextFile(<< <<"flask", "=", "=", "1.0">> >>)

DepsEntries == {"Package.json", "package.json", "package-lock.json", "requirements.txt"}

DepsTrees ==
    {[p \in {<<"proj">>} \cup {<<"proj", n>> : n \in es} |-> DepsFixture(p)] :
        es \in {x \in SUBSET DepsEntries : Cardinality(x) <= MaxFiles}}

\* the answers of the advisory service for the one query of an ecosystem:
\* one advisory, or a non-success status whose body holds one
DepsAnswers(id) ==
    {[status |-> st, results |-> << <<Advisory(id, <<>>)>> >>] : st \in {"ok", "fail"}}

DepsConfigs ==
    {Config(verbose, <<KeyPattern("high")>>, <<>>, 64, TRUE, TRUE, <<<<"h">>>>, conc) :
        verbose \in BOOLEAN, conc \in {1}}

DepsInit ==
    /\ call = [fn |-> "ScanPath"]
    /\ ret = <<>>
    /\ cfg \in DepsConfigs
    /\ scanType \in {"all", "dependencies"}
    /\ fs \in DepsTrees
    /\ \E a \in DepsAnswers("GHSA-1"), b \in DepsAnswers("PYSEC-1") :
          osv = [e \in {"npm", "PyPI"} |-> IF e = "npm" THEN a ELSE b]
    /\ pc = "start"
    /\ files = <<>>
    /\ wpc = <<>>
    /\ pending = <<>>
    /\ semaphore = 0
    /\ wg = 0
    /\ issues = <<>>
    /\ closed = FALSE
    /\ results = NoResults
    /\ run = 1
    /\ prev = <<>>

DepsSpec == DepsInit /\ [][Next]_vars

\* the ecosystem of the manifest at path, "" when no parser is selected
EcosystemOf(path) ==
    CASE Base(path) \in {"Package.json", "package.json"} -> "npm"
      [] Base(path) = "requirements.txt" -> "PyPI"
      [] OTHER -> ""

\* the returned Findings of kind k of the file at path
Reported(k, path) ==
    SelectSeq(Returns.Issues, LAMBDA f : f.Type = k /\ f.File = path)

Collected(path) == \E i \in 1..Len(files) : files[i] = path

\* C15: when the advisory query of an ecosystem fails, the scan returns
\* Results in which no vulnerability Finding is of a manifest of that
\* ecosystem, the advisory of the other ecosystem, whose query succeeds, is
\* reported, and the secret and social Findings of every file are those of
\* its secret and social scans.
C15_FailedGroupIsolated ==
    (pc = "returned" /\ \E e \in DOMAIN osv : osv[e].status = "fail")
        => /\ Returned
           /\ \A p \in DOMAIN fs :
                 (EcosystemOf(p) # "" /\ osv[EcosystemOf(p)].status = "fail")
                     => Reported("vulnerability", p) = <<>>
           /\ \A p \in DOMAIN fs :
                 (/\ Collected(p)
                  /\ EcosystemOf(p) # ""
                  /\ osv[EcosystemOf(p)].status = "ok"
                  /\ ~fs[p].manifest.err)
                     => Len(Reported("vulnerability", p)) = 1
           /\ \A p \in DOMAIN fs :
                 (Collected(p) /\ scanType = "all")
                     => /\ Reported("secret", p) = scanSecrets(p, fs[p].content)
                        /\ Reported("social", p) = scanSocialEngineering(p, fs[p].content)

\* the npm query has failed, and the scan has returned the advisory of the
\* PyPI manifest and the secret of the npm manifest
C15_Witness ==
    /\ Returned
    /\ osv["npm"].status = "fail"
    /\ Collected(<<"proj", "Package.json">>)
    /\ Len(Reported("vulnerability", <<"proj", "requirements.txt">>)) = 1
    /\ Len(Reported("secret", <<"proj", "Package.json">>)) = 1

\* C18: a scan of manifests returns Results without error; the parser is
\* selected by the lower-cased basename (Package.json is parsed as
\* package.json); a basename no parser is selected for, and a manifest that
\* fails to parse, yield no vulnerability Finding, while the secret and
\* social Findings of that file and the Findings of the other files are
\* reported.
C18_ManifestParsingNeverAborts ==
    pc = "returned"
        => /\ Returned
           /\ \A p \in DOMAIN fs :
                 (Base(p) = "package-lock.json" \/ fs[p].manifest.err)
                     => Reported("vulnerability", p) = <<>>
           /\ (/\ Collected(<<"proj", "Package.json">>)
               /\ osv["npm"].status = "ok")
                 => Len(Reported("vulnerability", <<"proj", "Package.json">>)) = 1
           /\ \A p \in DOMAIN fs :
                 (Collected(p) /\ scanType = "all")
                     => /\ Reported("secret", p) = scanSecrets(p, fs[p].content)
                        /\ Reported("social", p) = scanSocialEngineering(p, fs[p].content)

\* the scan has returned the secret and the social Finding of a package.json
\* that is not JSON, and the advisory of Package.json
C18_Witness ==
    /\ Returned
    /\ \E p \in DOMAIN fs :
          /\ fs[p].manifest.err
          /\ Collected(p)
          /\ Len(Reported("secret", p)) = 1
          /\ Len(Reported("social", p)) = 1
    /\ Collected(<<"proj", "package-lock.json">>)
    /\ Len(Reported("vulnerability", <<"proj", "Package.json">>)) = 1

(***************************************************************************)
(* OsvSpec: scanDependencies applied to a package.json that declares at    *)
(* most MaxDeps packages, while the advisory service fails or answers with *)
(* at most MaxDeps + 1 results of at most two advisories each.  The        *)
(* identifier of an advisory tells its place in the response.              *)
(***************************************************************************)
DepNames == <<"left-pad", "lodash", "mocha", "chalk">>

\* CVSS_V3 vectors: with /PR:N/ alone, and with none of /AV:N/, /AC:L/, /PR:N/
CriticalVector ==
    <<"CVSS:3.1", "/", "AV:", "L", "/", "AC:", "H", "/", "PR:", "N", "/", "UI:", "N">>
PlainVector ==
    <<"CVSS:3.1", "/", "AV:", "L", "/", "AC:", "H", "/", "PR:", "L", "/", "UI:", "N">>

SeverityLists ==
    {<<>>,
     <<[Type |-> "CVSS_V3", Score |-> HighVector]>>,
     <<[Type |-> "CVSS_V3", Score |-> CriticalVector]>>,
     <<[Type |-> "CVSS_V3", Score |-> PlainVector]>>,
     <<[Type |-> "CVSS_V2", Score |-> HighVector]>>}

\* the lists of advisories the result at index i of a response can hold
VulnLists(i) ==
    {<<>>}
    \cup {<<Advisory(<<i, 1>>, sv)>> : sv \in SeverityLists}
    \cup {<<Advisory(<<i, 1>>, <<>>), Advisory(<<i, 2>>, sv)>> : sv \in SeverityLists}

RECURSIVE ResultLists(_)
ResultLists(m) ==
    IF m = 0 THEN {<<>>}
    ELSE {Append(rs, vl) : rs \in ResultLists(m - 1), vl \in VulnLists(m)}

OsvInit ==
    /\ call = [fn |-> "scanDependencies", filePath |-> ProbedFile]
    /\ ret = <<>>
    /\ cfg = Config(FALSE, <<>>, <<>>, 64, TRUE, FALSE, <<>>, 1)
    /\ scanType = "dependencies"
    /\ \E n \in 0..MaxDeps :
          fs = [p \in {<<"proj">>, ProbedFile} |->
                  IF p = <<"proj">> THEN EmptyDir
                  ELSE ManifestFile(<< <<"{", "}">> >>,
                           [i \in 1..n |-> [Name |-> DepNames[i], Version |-> <<"1.3.0">>]])]
    /\ \E st \in {"ok", "fail"}, m \in 0..(MaxDeps + 1) : \E rs \in ResultLists(m) :
          osv = [e \in {"npm"} |-> [status |-> st, results |-> rs]]
    /\ NoScan

\* scanDependencies, with the requests it has posted and the conversions
\* it has made
CallScanDependencies ==
    /\ call.fn = "scanDependencies"
    /\ ret = <<>>
    /\ ret' = <<scanDependencies(call.filePath, fs[call.filePath].content)>>
    /\ UNCHANGED <<call, cfg, scanType, fs, osv, scanVars>>

OsvNext == CallScanDependencies

OsvSpec == OsvInit /\ [][OsvNext]_vars

\* the dependencies declared by the manifest, in the order of the list
DepList == fs[ProbedFile].manifest.deps

\* the indexes of the results that belong to a dependency of the list
Answered ==
    IF osv["npm"].status = "ok"
    THEN {i \in 1..Len(osv["npm"].results) : i <= Len(DepList)}
    ELSE {}

RECURSIVE SumOver(_, _)
SumOver(f, set) ==
    IF set = {} THEN 0
    ELSE LET x == CHOOSE x \in set : TRUE IN f[x] + SumOver(f, set \ {x})

\* the number of advisory records returned for the dependencies of the list
RecordCount == SumOver([i \in Answered |-> Len(osv["npm"].results[i])], Answered)

\* C16: the queries of the request are the dependencies of the list, in
\* the order of the list; every advisory of the result at index i is
\* converted with the i-th dependency of the list; and the results at an
\* index beyond the end of the list are converted with no dependency.
C16_PositionalAttribution ==
    (call.fn = "scanDependencies" /\ ret # <<>> /\ DepList # <<>>)
        => /\ Len(ret[1].posted) = 1
           /\ Len(ret[1].posted[1]) = Len(DepList)
           /\ \A i \in 1..Len(DepList) :
                 /\ ret[1].posted[1][i].package.name = DepList[i].Name
                 /\ ret[1].posted[1][i].version = DepList[i].Version
           /\ \A c \in 1..Len(ret[1].calls) :
                 LET i == ret[1].calls[c].osv.ID[1]
                 IN  i \in Answered /\ ret[1].calls[c].dep.Name = DepList[i].Name
           /\ Len(ret[1].calls) = RecordCount
           /\ Len(ret[1].issues) = RecordCount

\* two dependencies were queried, the response held three results, and the
\* advisories of the first two have been converted
C16_Witness ==
    /\ call.fn = "scanDependencies"
    /\ ret # <<>>
    /\ Len(DepList) = 2
    /\ osv["npm"].status = "ok"
    /\ Len(osv["npm"].results) = 3
    /\ osv["npm"].results[3] # <<>>
    /\ Len(ret[1].calls) = 3

\* whether a severity list holds one of the vector-string substrings
\* extractCVSSSeverity looks for
Recognized(severity) ==
    \E k \in 1..Len(severity) :
        \/ Contains(severity[k].Score, <<"/", "AV:", "N", "/">>)
        \/ Contains(severity[k].Score, <<"/", "AC:", "L", "/">>)
        \/ Contains(severity[k].Score, <<"/", "PR:", "N", "/">>)

\* C17: the Findings are one per advisory record returned for a dependency,
\* in the order of the records, each of kind "vulnerability" and with the
\* identifier of its record; the Finding of a record whose severity
\* metadata holds no recognized substring, or no entry, is "medium".
C17_OneFindingPerAdvisory ==
    (call.fn = "scanDependencies" /\ ret # <<>>)
        => /\ Len(ret[1].issues) = RecordCount
           /\ Len(ret[1].issues) = Len(ret[1].calls)
           /\ \A c \in 1..Len(ret[1].issues) :
                 LET record == ret[1].calls[c].osv
                     f      == ret[1].issues[c]
                 IN  /\ f.Type = "vulnerability"
                     /\ f.Description[2] = record.ID
                     /\ ~Recognized(record.Severity) => f.Severity = "medium"

\* Findings have been made of an advisory without severity entries and of
\* one with a CVSS 3.1 vector that holds no recognized substring
C17_Witness ==
    /\ call.fn = "scanDependencies"
    /\ ret # <<>>
    /\ \E c, d \in 1..Len(ret[1].issues) :
          /\ ret[1].calls[c].osv.Severity = <<>>
          /\ ret[1].calls[d].osv.Severity = <<[Type |-> "CVSS_V3", Score |-> PlainVector]>>
          /\ ret[1].issues[c].Severity = "medium"
          /\ ret[1].issues[d].Severity = "medium"
    /\ \E c \in 1..Len(ret[1].issues) : ret[1].issues[c].Severity = "critical"

(***************************************************************************)
(* hooks.Install                                                           *)
(*                                                                         *)
(* The repository is a file tree like the scan tree: fs maps the paths     *)
(* that exist to their entries.  A hook script is the sequence of its      *)
(* lines; the word "GitGuardian" is one piece of a line.                   *)
(***************************************************************************)
MaxInstalls == 2        \* most calls of Install on one repository

Signature == <<"GitGuardian">>

preCommitHook ==
    << <<"#!/bin/sh">>, <<"#", " ", "GitGuardian", " ", "pre-commit", " ", "hook">> >>
prePushHook ==
    << <<"#!/bin/sh">>, <<"#", " ", "GitGuardian", " ", "pre-push", " ", "hook">> >>
commitMsgHook ==
    << <<"#!/bin/sh">>, <<"#", " ", "GitGuardian", " ", "commit-msg", " ", "hook">> >>

\* the hooks Install installs, in the order it installs them
HookNames == <<"pre-commit", "pre-push", "commit-msg">>

HookContent(hookName) ==
    CASE hookName = "pre-commit" -> preCommitHook
      [] hookName = "pre-push"   -> prePushHook
      [] hookName = "commit-msg" -> commitMsgHook

\* hookPath + ".backup"
BackupName(hookName) ==
    CASE hookName = "pre-commit" -> "pre-commit.backup"
      [] hookName = "pre-push"   -> "pre-push.backup"
      [] hookName = "commit-msg" -> "commit-msg.backup"

\* filepath.Join
Join(dir, name) == Append(dir, name)

\* whether os.Stat finds the path
Exists(f, path) == path \in DOMAIN f

\* ioutil.ReadFile: the bytes of a readable regular file
ReadFile(f, path) ==
    IF f[path].kind = "file" /\ ~f[path].readErr
    THEN [err |-> "nil", data |-> JoinLines(f[path].content)]
    ELSE [err |-> "read error", data |-> <<>>]

\* os.Rename of a regular file: the new path is replaced unless it is a
\* directory
Rename(f, oldpath, newpath) ==
    IF Exists(f, newpath) /\ f[newpath].kind = "dir"
    THEN [fs |-> f, err |-> "rename error"]
    ELSE [fs |-> [p \in (DOMAIN f \ {oldpath}) \cup {newpath} |->
                     IF p = newpath THEN f[oldpath] ELSE f[p]],
          err |-> "nil"]

\* ioutil.WriteFile: the path becomes a regular file with this content
\* unless it is a directory
WriteFile(f, path, content) ==
    IF Exists(f, path) /\ f[path].kind = "dir"
    THEN [fs |-> f, err |-> "write error"]
    ELSE [fs |-> [p \in DOMAIN f \cup {path} |->
                     IF p = path
                     THEN Entry("file", FALSE, FALSE, Len(JoinLines(content)), content,
                                NoManifest)
                     ELSE f[p]],
          err |-> "nil"]

\* an installHook that overwrites the existing hook without a backup
installHookNoBackup(f, hooksDir, hookName, hookContent) ==
    LET hookPath == Join(hooksDir, hookName)
        existing == ReadFile(f, hookPath)
    IN  IF Exists(f, hookPath) /\ existing.err = "nil"
                               /\ Contains(existing.data, Signature)
        THEN [fs |-> f, err |-> "nil"]
        ELSE WriteFile(f, hookPath, hookContent)

installHook(f, hooksDir, hookName, hookContent) ==
    LET hookPath   == Join(hooksDir, hookName)
        backupPath == Join(hooksDir, BackupName(hookName))
        existing   == ReadFile(f, hookPath)
        written(g) ==
            LET w == WriteFile(g, hookPath, hookContent)
            IN  IF w.err # "nil" THEN [fs |-> w.fs, err |-> "failed to write hook file"]
                ELSE w
    IN  IF Exists(f, hookPath)
        THEN IF existing.err = "nil" /\ Contains(existing.data, Signature)
             THEN [fs |-> f, err |-> "nil"]
             ELSE LET moved == Rename(f, hookPath, backupPath)
                  IN  IF moved.err # "nil"
                      THEN [fs |-> f, err |-> "failed to backup existing hook"]
                      ELSE written(moved.fs)
        ELSE written(f)

\* os.MkdirAll of the hooks directory below an existing .git
MkdirAll(f, dir) ==
    IF Exists(f, dir)
    THEN [fs |-> f, err |-> IF f[dir].kind = "dir" THEN "nil" ELSE "mkdir error"]
    ELSE IF f[SubSeq(dir, 1, Len(dir) - 1)].kind # "dir"
    THEN [fs |-> f, err |-> "mkdir error"]
    ELSE [fs |-> [p \in DOMAIN f \cup {dir} |-> IF p = dir THEN EmptyDir ELSE f[p]],
          err |-> "nil"]

\* the three installHook calls of Install, from the k-th on
RECURSIVE InstallFrom(_, _, _)
InstallFrom(f, hooksDir, k) ==
    IF k > Len(HookNames) THEN [fs |-> f, err |-> "nil"]
    ELSE LET installed == installHook(f, hooksDir, HookNames[k], HookContent(HookNames[k]))
         IN  IF installed.err # "nil"
             THEN [fs |-> installed.fs, err |-> "failed to install hook"]
             ELSE InstallFrom(installed.fs, hooksDir, k + 1)

Install(f, repoPath) ==
    LET gitDir   == Join(repoPath, ".git")
        hooksDir == Join(gitDir, "hooks")
        made     == MkdirAll(f, hooksDir)
    IN  IF ~Exists(f, gitDir) THEN [fs |-> f, err |-> "not a git repository"]
        ELSE IF made.err # "nil"
        THEN [fs |-> f, err |-> "failed to create hooks directory"]
        ELSE InstallFrom(made.fs, hooksDir, 1)

(***************************************************************************)
(* HookSpec: Install called at most MaxInstalls times on a repository      *)
(* whose .git is missing, a file, or a directory with or without a hooks   *)
(* directory that holds any of the hook files and backups below.           *)
(***************************************************************************)
Repo == <<"repo">>

HooksDir == <<"repo", ".git", "hooks">>

\* a hook script of the user that names the tool in lower case only
UserHook == TextFile(<< <<"#!/bin/sh">>, <<"gitguardian", " ", "scan">> >>)

\* a hook script of the user that carries the signature
SignedHook == TextFile(<< <<"#!/bin/sh">>, <<"echo", " ", "GitGuardian">> >>)

\* the same scripts when ioutil.ReadFile fails on them
Unreadable(e) == [e EXCEPT !.readErr = TRUE]

\* what a hook path can hold: nothing, or one of these entries
HookStates == {UserHook, SignedHook, Unreadable(UserHook), Unreadable(SignedHook)}

\* what a backup path can hold: nothing, an older backup, or a directory
OldBackup == TextFile(<< <<"#!/bin/sh">>, <<"old">> >>)

BackupStates == {OldBackup, EmptyDir}

HookNameSet == {HookNames[k] : k \in 1..Len(HookNames)}

\* the tree with a hooks directory that holds the chosen hooks and backups
HookTree(hooks, backups) ==
    LET present == {HooksDir \o <<h>> : h \in DOMAIN hooks}
                   \cup {HooksDir \o <<BackupName(h)>> : h \in DOMAIN backups}
    IN  [p \in {Repo, <<"repo", ".git">>, HooksDir} \cup present |->
            IF Len(p) <= 3 THEN EmptyDir
            ELSE IF Base(p) \in DOMAIN hooks THEN hooks[Base(p)]
            ELSE LET h == CHOOSE h \in DOMAIN backups : BackupName(h) = Base(p)
                 IN  backups[h]]

\* the repositories without a hooks directory
BareTrees ==
    {[p \in {Repo} |-> EmptyDir],
     [p \in {Repo, <<"repo", ".git">>} |-> IF Len(p) = 1 THEN EmptyDir ELSE EmptyFile],
     [p \in {Repo, <<"repo", ".git">>} |-> EmptyDir]}

HookInit ==
    /\ call = [fn |-> "Install", repoPath |-> Repo]
    /\ ret = <<>>
    /\ cfg = Config(FALSE, <<>>, <<>>, 0, FALSE, FALSE, <<>>, 1)
    /\ scanType = "all"
    /\ osv = <<>>
    /\ \/ fs \in BareTrees
       \/ \E hs \in SUBSET HookNameSet, bs \in SUBSET HookNameSet :
             \E hooks \in [hs -> HookStates], backups \in [bs -> BackupStates] :
                fs = HookTree(hooks, backups)
    /\ NoScan

\* hooks.Install(*scanPath); ret keeps the error of every call
CallInstall ==
    /\ call.fn = "Install"
    /\ Len(ret) < MaxInstalls
    /\ LET done == Install(fs, call.repoPath)
       IN  /\ fs' = done.fs
           /\ ret' = Append(ret, done.err)
    /\ UNCHANGED <<call, cfg, scanType, osv, scanVars>>

HookNext == CallInstall

HookSpec == HookInit /\ [][HookNext]_vars

\* whether a step is a call of Install
InstallStep == call.fn = "Install" /\ Len(ret') = Len(ret) + 1

\* whether the file at a path holds the signature
Carries(f, path) ==
    /\ Exists(f, path)
    /\ f[path].kind = "file"
    /\ Contains(JoinLines(f[path].content), Signature)

\* the hook at hookPath was moved to backupPath and the hook written
BackedUp(hookName) ==
    LET hookPath   == HooksDir \o <<hookName>>
        backupPath == HooksDir \o <<BackupName(hookName)>>
    IN  /\ Exists(fs', backupPath)
        /\ fs'[backupPath] = fs[hookPath]
        /\ Exists(fs', hookPath)
        /\ fs'[hookPath] = TextFile(HookContent(hookName))

\* the hook at hookPath and its backup path are as they were
Untouched(hookName) ==
    LET hookPath   == HooksDir \o <<hookName>>
        backupPath == HooksDir \o <<BackupName(hookName)>>
    IN  /\ Exists(fs', hookPath)
        /\ fs'[hookPath] = fs[hookPath]
        /\ Exists(fs', backupPath) = Exists(fs, backupPath)
        /\ Exists(fs, backupPath) => fs'[backupPath] = fs[backupPath]

HasIssuesSeveral(r) == Len(r.Issues) > 1

\* Results.HasIssues
HasIssues(r) == Len(r.Issues) > 0

\* the values given to -format: the two supported formats and another one
Formats == {"text", "json", "xml"}

\* outputResults: the error it returns
outputResults(r, format) ==
    IF format \in {"json", "text"} THEN "nil" ELSE "unsupported output format"

\* how main ends once ScanPath has returned: log.Fatalf exits with 1
Outcome(returned, format) ==
    IF returned.err # "nil" THEN [exit |-> 1, fatal |-> "Scan failed"]
    ELSE IF outputResults(returned.results[1], format) # "nil"
    THEN [exit |-> 1, fatal |-> "Failed to output results"]
    ELSE [exit |-> IF HasIssues(returned.results[1]) THEN 1 ELSE 0, fatal |-> "nil"]

\* main up to the call of ScanPath: -verbose sets cfg.Verbose; with
\* -install-hooks the hooks are installed and main returns; otherwise the
\* scan type is chosen and ScanPath called
MainStart ==
    /\ call.fn = "main"
    /\ pc = "main"
    /\ cfg' = [cfg EXCEPT !.Verbose = cfg.Verbose \/ call.verbose]
    /\ IF call.installHooks
       THEN LET done == Install(fs, Root)
            IN  /\ fs' = done.fs
                /\ ret' = <<IF done.err # "nil"
                            THEN [exit |-> 1, fatal |-> "Failed to install hooks"]
                            ELSE [exit |-> 0, fatal |-> "nil"]>>
                /\ pc' = "exited"
                /\ UNCHANGED scanType
       ELSE /\ scanType' = IF call.onlySecrets THEN "secrets"
                           ELSE IF call.onlyDeps THEN "dependencies"
                           ELSE "all"
            /\ pc' = "start"
            /\ UNCHANGED <<fs, ret>>
    /\ UNCHANGED <<call, osv, files, wpc, pending, semaphore, wg, issues,
                   closed, results, run, prev>>

\* main after ScanPath has returned: the results are written and the
\* process exits
MainExit ==
    /\ call.fn = "main"
    /\ pc = "returned"
    /\ ret' = <<Outcome(ret[1], call.format)>>
    /\ pc' = "exited"
    /\ UNCHANGED <<call, cfg, scanType, fs, osv, files, wpc, pending, semaphore,
                   wg, issues, closed, results, run, prev>>

CliNext ==
    \/ MainStart
    \/ Collect
    \/ Dispatch
    \/ \E i \in 1..Len(files) : Worker(i)
    \/ CloseIssues
    \/ Receive
    \/ EndRange
    \/ Return
    \/ MainExit

(***************************************************************************)
(* CliSpec: main run with every combination of its flags on the trees of   *)
(* Spec, with a configuration file that sets the concurrency limit to 1,   *)
(* while the advisory service answers.                                     *)
(***************************************************************************)
CliConfigs ==
    {Config(FALSE, <<KeyPattern("high"), LongPattern("critical")>>, <<<<"t">>>>,
            16, TRUE, social, <<<<"h">>>>, conc) :
        social \in BOOLEAN, conc \in {1}}

CliInit ==
    /\ call \in [fn : {"main"}, installHooks : BOOLEAN, verbose : BOOLEAN,
                 onlySecrets : BOOLEAN, onlyDeps : BOOLEAN, format : Formats]
    /\ ret = <<>>
    /\ cfg \in CliConfigs
    /\ scanType = "all"
    /\ fs \in Trees
    /\ osv \in {[e \in {"npm"} |-> a] : a \in {x \in OsvAnswers : x.status = "ok"}}
    /\ pc = "main"
    /\ files = <<>>
    /\ wpc = <<>>
    /\ pending = <<>>
    /\ semaphore = 0
    /\ wg = 0
    /\ issues = <<>>
    /\ closed = FALSE
    /\ results = NoResults
    /\ run = 1
    /\ prev = <<>>

CliSpec == CliInit /\ [][CliNext]_vars

\* whether main has exited after ScanPath returned Results
ExitedAfterScan ==
    /\ call.fn = "main"
    /\ pc = "exited"
    /\ ~call.installHooks
    /\ ret[1].fatal # "Scan failed"

OrderLines ==
    {<<"k", "a", " ", "k", "a", "t">>, <<"k", "a", "t", " ", "k", "a">>,
     <<"k", "a">>, <<"o">>}

OrderContents == UNION {[1..n -> OrderLines] : n \in 1..MaxOrderLines}

OrderPatterns ==
    {<<TokenPattern("critical"), KeyPattern("high")>>,
     <<KeyPattern("high"), TokenPattern("critical")>>}

OrderInit ==
    /\ call = [fn |-> "ScanPath"]
    /\ ret = <<>>
    /\ \E patterns \in OrderPatterns :
          cfg = Config(FALSE, patterns, <<>>, 64, FALSE, FALSE, <<>>, 1)
    /\ scanType \in {"all", "secrets"}
    /\ \E content \in OrderContents, others \in SUBSET {<<"proj", "b.md">>} :
          fs = [p \in {<<"proj">>, <<"proj", "a.go">>} \cup others |->
                  IF p = <<"proj">> THEN EmptyDir
                  ELSE IF p = <<"proj", "a.go">> THEN TextFile(content)
                  ELSE TextFile(<< <<"k", "a">> >>)]
    /\ osv = [e \in {"npm"} |-> [status |-> "fail", results |-> <<>>]]
    /\ pc = "start"
    /\ files = <<>>
    /\ wpc = <<>>
    /\ pending = <<>>
    /\ semaphore = 0
    /\ wg = 0
    /\ issues = <<>>
    /\ closed = FALSE
    /\ results = NoResults
    /\ run = 1
    /\ prev = <<>>

OrderSpec == OrderInit /\ [][Next]_vars

\* the positions at which the matches of re in line start, from position i
\* on, leftmost first
RECURSIVE MatchStarts(_, _, _)
MatchStarts(re, line, i) ==
    LET starts == {j \in i..Len(line) : MatchAt(re, line, j)}
    IN  IF starts = {} THEN <<>>
        ELSE LET first == CHOOSE j \in starts : \A k \in starts : j <= k
             IN  <<first>> \o MatchStarts(re, line, first + PatternLen(re))

\* the line, the pattern and the start of every match scanSecrets reports
\* in a file, in the order of its three loops
PositionsOf(path) ==
    ConcatAll([ln \in 1..Len(fs[path].content) |->
        ConcatAll([p \in 1..Len(cfg.SecretPatterns) |->
            LET re   == cfg.SecretPatterns[p].compiled
                line == fs[path].content[ln]
                kept == SelectSeq(MatchStarts(re, line, 1),
                                  LAMBDA j : ~isWhitelisted(Submatch(re, line, j)[1]))
            IN  [k \in 1..Len(kept) |-> [line |-> ln, pattern |-> p, start |-> kept[k]]]])])

\* the Finding scanSecrets makes of the match at a position
IssueAt(path, pos) ==
    LET line == fs[path].content[pos.line]
        pattern == cfg.SecretPatterns[pos.pattern]
    IN  SecretIssue(path, pos.line - 1, line, pattern,
                    Submatch(pattern.compiled, line, pos.start))

\* the secret Findings of a file, in the order of the returned Results
SecretsReturned(path) ==
    SelectSeq(Returns.Issues, LAMBDA f : f.File = path /\ f.Type = "secret")

\* the k-th secret Finding of every file is the one of its k-th match
ReturnedInScanOrder ==
    \A n \in 1..Len(files) :
        LET found == SecretsReturned(files[n])
            at    == PositionsOf(files[n])
        IN  /\ Len(found) = Len(at)
            /\ \A k \in 1..Len(at) : found[k] = IssueAt(files[n], at[k])

\* C26 as stated: in the returned Results any two secret Findings of one
\* file stand in line order and, on the same line, in left-to-right order
\* of their match positions.
C26_LineThenPosition ==
    Returned
        => /\ ReturnedInScanOrder
           /\ \A n \in 1..Len(files) :
                 LET at == PositionsOf(files[n])
                 IN  \A k, l \in 1..Len(at) :
                        k < l => \/ at[k].line < at[l].line
                                 \/ /\ at[k].line = at[l].line
                                    /\ at[k].start <= at[l].start

\* C26 with the order of the code: in the returned Results any two secret
\* Findings of one file stand in line order; on the same line in the order
\* of the configured patterns; and for the same line and pattern in
\* left-to-right order of their match positions.
C26_LineThenPatternThenPosition ==
    Returned
        => /\ ReturnedInScanOrder
           /\ \A n \in 1..Len(files) :
                 LET at == PositionsOf(files[n])
                 IN  \A k, l \in 1..Len(at) :
                        k < l => \/ at[k].line < at[l].line
                                 \/ /\ at[k].line = at[l].line
                                    /\ at[k].pattern < at[l].pattern
                                 \/ /\ at[k].line = at[l].line
                                    /\ at[k].pattern = at[l].pattern
                                    /\ at[k].start < at[l].start

\* the second call has returned the Findings of a.go around the one of b.md:
\* two lines of a.go, the second with matches of both patterns, the first
\* pattern matching to the right of the second
C26_Witness ==
    /\ Returned
    /\ run = 2
    /\ Len(files) = 2
    /\ Len(Returns.Issues) >= 4
    /\ Returns.Issues[1].File = files[1]
    /\ Returns.Issues[2].File = files[2]
    /\ Returns.Issues[Len(Returns.Issues)].File = files[1]
    /\ \E k, l \in 1..Len(PositionsOf(files[1])) :
          /\ k < l
          /\ PositionsOf(files[1])[k].line = 2
          /\ PositionsOf(files[1])[l].line = 2
          /\ PositionsOf(files[1])[k].start > PositionsOf(files[1])[l].start

(***************************************************************************)
(* VerboseSpec: ScanPath called on the manifests of DepsSpec, and called   *)
(* a second time on the same tree, with the same answers of the advisory   *)
(* service, by a caller that has only flipped Verbose.                     *)
(***************************************************************************)
\* the caller flips Verbose and calls ScanPath again on the same tree
\* (lines 72-77: a fresh Results)
RescanVerbose ==
    /\ pc = "returned"
    /\ run = 1
    /\ ret[1].err = "nil"
    /\ prev' = BagOf(results.Issues)
    /\ run' = 2
    /\ cfg' = [cfg EXCEPT !.Verbose = ~cfg.Verbose]
    /\ pc' = "start"
    /\ ret' = <<>>
    /\ files' = <<>>
    /\ wpc' = <<>>
    /\ pending' = <<>>
    /\ semaphore' = 0
    /\ wg' = 0
    /\ issues' = <<>>
    /\ closed' = FALSE
    /\ results' = NoResults
    /\ UNCHANGED <<call, scanType, fs, osv>>

VerboseNext ==
    \/ Collect
    \/ Dispatch
    \/ \E i \in 1..Len(files) : Worker(i)
    \/ CloseIssues
    \/ Receive
    \/ EndRange
    \/ Return
    \/ RescanVerbose

VerboseSpec == DepsInit /\ [][VerboseNext]_vars

\* C27: the call with Verbose flipped returns the same multiset of Findings
\* as the first call on the same tree with the same advisory answers did,
\* whether the advisory queries succeed or fail.
C27_VerboseIndependent ==
    (Returned /\ run = 2)
        => /\ DOMAIN BagOf(Returns.Issues) = DOMAIN prev
           /\ \A f \in DOMAIN prev : BagOf(Returns.Issues)[f] = prev[f]

\* the second call, with Verbose set, has returned the advisory of the npm
\* manifest and none for the PyPI manifest, whose query fails
C27_Witness ==
    /\ Returned
    /\ run = 2
    /\ cfg.Verbose
    /\ osv["PyPI"].status = "fail"
    /\ osv["npm"].status = "ok"
    /\ Collected(<<"proj", "requirements.txt">>)
    /\ Reported("vulnerability", <<"proj", "requirements.txt">>) = <<>>
    /\ Len(Reported("vulnerability", <<"proj", "Package.json">>)) = 1
    /\ prev # <<>>

(***************************************************************************)
(* CapSpec: ScanPath called on a root directory that holds a.go, a file    *)
(* with IssuesCap + MaxOverflow secrets, and possibly b.md without a       *)
(* secret, with concurrency limit 1 or 2, and called a second time with    *)
(* concurrency limit 8 when the limit was 1.                               *)
(***************************************************************************)
\* a line of n matches of the key pattern
KeyLine(n) == [c \in 1..(2 * n) |-> IF c % 2 = 1 THEN "k" ELSE "a"]

\* a file with n matches of the key pattern, ten on a line, and then extra
\* lines of one match each
SecretLines(n, extra) ==
    [ln \in 1..(n \div 10) |-> KeyLine(10)] \o [ln \in 1..extra |-> KeyLine(1)]

CapInit ==
    /\ call = [fn |-> "ScanPath"]
    /\ ret = <<>>
    /\ cfg = Config(FALSE, <<KeyPattern("high")>>, <<>>, 1024, FALSE, FALSE, <<>>, 1)
    /\ scanType = "secrets"
    /\ fs = [p \in {<<"proj">>, <<"proj", "a.go">>, <<"proj", "b.md">>} |->
                IF p = <<"proj">> THEN EmptyDir
                ELSE IF p = <<"proj", "a.go">>
                THEN TextFile(SecretLines(IssuesCap, MaxOverflow))
                ELSE TextFile(<< <<"o">> >>)]
    /\ osv = [e \in {"npm"} |-> [status |-> "fail", results |-> <<>>]]
    /\ pc = "start"
    /\ files = <<>>
    /\ wpc = <<>>
    /\ pending = <<>>
    /\ semaphore = 0
    /\ wg = 0
    /\ issues = <<>>
    /\ closed = FALSE
    /\ results = NoResults
    /\ run = 1
    /\ prev = <<>>

CapSpec == CapInit /\ [][Next]_vars

\* the steps of ScanPath other than the call of scanFile
Scheduled ==
    \/ Collect
    \/ Dispatch
    \/ \E i \in 1..Len(files) : Acquire(i) \/ SendIssue(i) \/ Release(i) \/ Done(i)
    \/ CloseIssues
    \/ Receive
    \/ EndRange
    \/ Return
    \/ Rescan

\* line 99: a call of scanFile returns, so that no worker stays in it for ever
ScansEnd == []<>(\A i \in 1..Len(wpc) : wpc[i] # "scan")

\* the Go scheduler lets a goroutine that can take a step take one, and
\* every call of scanFile returns
CapFairSpec == CapSpec /\ WF_vars(Scheduled) /\ ScansEnd

\* a worker that has a Finding to send while the channel is full
Blocked(i) == wpc[i] = "send" /\ pending[i] # <<>> /\ Len(issues) = IssuesCap

\* some goroutine of ScanPath can take a step
CanStep == (\E i \in 1..Len(wpc) : wpc[i] = "scan") \/ ENABLED Scheduled

\* C28: with concurrency N >= 1 ScanPath is never stuck before it returns,
\* and it returns, with more Findings than the channel can hold; a worker
\* blocked on a full channel holds a slot of the semaphore while the
\* collector can receive; and the channel is closed only when every worker
\* has sent its last Finding and is done.
C28_DrainsPastCapacity ==
    /\ [](cfg.MaxConcurrency >= 1 =>
            /\ pc = "returned" \/ CanStep
            /\ semaphore = Cardinality(InFlight)
            /\ \A i \in 1..Len(wpc) : Blocked(i) => (i \in InFlight /\ ENABLED Receive)
            /\ closed => \A i \in 1..Len(wpc) : wpc[i] = "done" /\ pending[i] = <<>>)
    /\ (pc = "start") ~> (Returned /\ Len(Returns.Issues) > IssuesCap)

\* the channel holds IssuesCap Findings while the worker of a.go has more
\* to send and the worker of b.md waits for the slot
C28_Witness ==
    /\ cfg.MaxConcurrency = 1
    /\ Len(issues) = IssuesCap
    /\ \E i, j \in 1..Len(wpc) :
          /\ Blocked(i)
          /\ wpc[j] = "acquire"
    /\ results.Issues = <<>>

(***************************************************************************)
(* SkipRootSpec: ScanPath called on a root named vendor, build or proj     *)
(* that holds files with secrets and a manifest; the root is a directory,  *)
(* a directory that cannot be stat'ed or read, or a directory one of whose *)
(* entries cannot be stat'ed.                                              *)
(***************************************************************************)
RootNames == {"vendor", "build", "proj"}

\* the tree with the given root directory and the given entries of Fixture
RootTree(root, entries) ==
    [p \in {<<root>>} \cup {<<root, n>> : n \in entries} |->
        IF Len(p) = 1 THEN EmptyDir ELSE Fixture(<<"proj", p[2]>>)]

\* the root of a tree
Root1(t) == CHOOSE p \in DOMAIN t : Len(p) = 1

RootTrees ==
    {RootTree(root, es) : root \in RootNames, es \in SUBSET {"a.go", "c.env", "package.json"}}

SkipRootTrees ==
    RootTrees
    \cup UNION {{[t EXCEPT ![p].lstatErr = TRUE] : p \in DOMAIN t} : t \in RootTrees}
    \cup {[t EXCEPT ![Root1(t)].readErr = TRUE] : t \in RootTrees}

SkipRootInit ==
    /\ call = [fn |-> "ScanPath"]
    /\ ret = <<>>
    /\ cfg \in FaultConfigs
    /\ scanType \in {"all", "secrets"}
    /\ fs \in SkipRootTrees
    /\ osv \in {[e \in {"npm"} |-> a] : a \in OsvAnswers}
    /\ pc = "start"
    /\ files = <<>>
    /\ wpc = <<>>
    /\ pending = <<>>
    /\ semaphore = 0
    /\ wg = 0
    /\ issues = <<>>
    /\ closed = FALSE
    /\ results = NoResults
    /\ run = 1
    /\ prev = <<>>

SkipRootSpec == SkipRootInit /\ [][Next]_vars

\* ScanPath has returned from a scan whose root is a directory with a
\* skip-listed basename
SkippedRootScanned ==
    /\ pc = "returned"
    /\ fs[Root].kind = "dir"
    /\ shouldSkipDir(Base(Root))

\* what C30 promises of such a scan: no file collected, and Results with
\* FilesScanned 0, no Finding and a nil error
NothingScanned ==
    /\ files = <<>>
    /\ ret[1].err = "nil"
    /\ Returns = NoResults

\* C30 as stated: when the basename of the root directory is in the skip
\* list, ScanPath collects no file and returns Results with FilesScanned 0,
\* no Finding and a nil error, whatever the directory holds.
C30_SkipListedRoot == SkippedRootScanned => NothingScanned

\* C30: when the basename of the root directory is in the skip list and
\* the directory can be stat'ed and read, ScanPath collects no file and
\* returns Results with FilesScanned 0, no Finding and a nil error,
\* whatever the directory holds.
C30_SkipListedReadableRoot ==
    (SkippedRootScanned /\ ~fs[Root].lstatErr /\ ~fs[Root].readErr) => NothingScanned

\* ScanPath has returned empty Results for the readable directory vendor
\* that holds a.go with a secret, c.env and a manifest
C30_Witness ==
    /\ SkippedRootScanned
    /\ ~fs[Root].lstatErr /\ ~fs[Root].readErr
    /\ DOMAIN fs = {<<"vendor">>, <<"vendor", "a.go">>, <<"vendor", "c.env">>,
                     <<"vendor", "package.json">>}
    /\ \A p \in DOMAIN fs : ~fs[p].lstatErr
    /\ NothingScanned

====
